---- MODULE Spec2Model ----
(***************************************************************************)
(* Model of the swap execution and gas-estimation subsystem of            *)
(* fibrous-mcp: executeSwap / executeStarknetSwap / executeEvmSwap /      *)
(* approveTokenIfNeeded / estimateSwapGas / validateSwapParams (swap      *)
(* utilities), toBigInt (amount utilities), the chain configuration       *)
(* readers and the execute-swap tool handler.                             *)
(*                                                                         *)
(* Representation.                                                         *)
(*  - A JavaScript string that the code inspects character by character   *)
(*    (an amount) is a sequence of one-character strings.                 *)
(*  - A bigint is the sequence of its decimal digits, most significant    *)
(*    first, without leading zeros (zero is <<0>>); all arithmetic is     *)
(*    exact, as with JavaScript bigint.                                   *)
(*  - An object literal is a record that has exactly the keys the code    *)
(*    writes; an optional key that is not written is not in its DOMAIN.   *)
(*  - A thrown value is [isError, message].                               *)
(***************************************************************************)
EXTENDS Integers, Sequences, FiniteSets, TLC

VARIABLES
    env,        \* process.env: variable name -> value ("" when unset)
    registry,   \* fibrousRouter.supportedChains, empty before the startup fetch
    allowance,  \* on-chain ERC-20 allowance owner -> router, per EVM chain
    inv         \* the invocations in flight: id -> invocation record

vars == <<env, registry, allowance, inv>>

-----------------------------------------------------------------------------
(* Bounds of the model *)

\* longest amount string enumerated for validateSwapParams
MaxAmountLen == 3

-----------------------------------------------------------------------------
(* Characters, decimal strings and bigints *)

DigitChars == <<"0", "1", "2", "3", "4", "5", "6", "7", "8", "9">>

IsDigitChar(c) == \E d \in 1..10 : DigitChars[d] = c

DigitOf(c) == (CHOOSE d \in 1..10 : DigitChars[d] = c) - 1

RECURSIVE StripZeros(_)
StripZeros(ds) ==
    IF Len(ds) > 1 /\ Head(ds) = 0 THEN StripZeros(Tail(ds)) ELSE ds

Reverse(s) == [k \in 1..Len(s) |-> s[Len(s) + 1 - k]]

\* bigint.toString(): the decimal digits as characters
BigToString(b) == [k \in 1..Len(b) |-> DigitChars[b[k] + 1]]

\* BigInt(s) for a string of decimal digits
BigOfDigits(s) == StripZeros([k \in 1..Len(s) |-> DigitOf(s[k])])

RECURSIVE NatToLE(_)
NatToLE(n) == IF n < 10 THEN <<n>> ELSE <<n % 10>> \o NatToLE(n \div 10)

\* BigInt(n) for a small number n
NatToBig(n) == Reverse(NatToLE(n))

RECURSIVE AddLE(_, _, _)
AddLE(a, b, c) ==
    IF a = <<>> /\ b = <<>>
    THEN IF c = 0 THEN <<>> ELSE <<c>>
    ELSE LET x == IF a = <<>> THEN 0 ELSE Head(a)
             y == IF b = <<>> THEN 0 ELSE Head(b)
             s == x + y + c
         IN  <<s % 10>> \o AddLE(IF a = <<>> THEN a ELSE Tail(a),
                                 IF b = <<>> THEN b ELSE Tail(b),
                                 s \div 10)

RECURSIVE MulDigitLE(_, _, _)
MulDigitLE(a, d, c) ==
    IF a = <<>>
    THEN IF c = 0 THEN <<>> ELSE <<c>>
    ELSE LET s == Head(a) * d + c
         IN  <<s % 10>> \o MulDigitLE(Tail(a), d, s \div 10)

RECURSIVE MulLE(_, _)
MulLE(a, b) ==
    IF b = <<>>
    THEN <<>>
    ELSE AddLE(MulDigitLE(a, Head(b), 0), <<0>> \o MulLE(a, Tail(b)), 0)

\* a * b on bigints
BigMul(a, b) ==
    LET p == Reverse(MulLE(Reverse(a), Reverse(b)))
    IN  IF p = <<>> THEN <<0>> ELSE StripZeros(p)

\* a / 100n on bigints (truncating division)
BigDiv100(a) == IF Len(a) <= 2 THEN <<0>> ELSE SubSeq(a, 1, Len(a) - 2)

RECURSIVE LexGe(_, _)
LexGe(a, b) ==
    IF a = <<>> THEN TRUE
    ELSE IF Head(a) # Head(b) THEN Head(a) > Head(b)
    ELSE LexGe(Tail(a), Tail(b))

\* a >= b on bigints
BigGe(a, b) ==
    IF Len(a) # Len(b) THEN Len(a) > Len(b) ELSE LexGe(a, b)

\* the characters of a decimal literal written as digits
Str(ds) == [k \in 1..Len(ds) |-> DigitChars[ds[k] + 1]]

RECURSIVE Text(_)
\* the string made of a sequence of characters
Text(chars) == IF chars = <<>> THEN "" ELSE Head(chars) \o Text(Tail(chars))

\* String(n) of a number kept in thousandths: 1000 is "1", 500 is "0.5"
NumberToString(n) ==
    LET whole == Text(Str(NatToBig(n \div 1000)))
        frac  == n % 1000
        fracDigits == <<frac \div 100, (frac \div 10) % 10, frac % 10>>
        kept  == IF frac % 10 # 0 THEN 3 ELSE IF frac % 100 # 0 THEN 2 ELSE 1
    IN  IF frac = 0 THEN whole
        ELSE whole \o "." \o Text(Str(SubSeq(fracDigits, 1, kept)))

\* an object has the key k (an optional key that was written)
HasKey(r, k) == k \in DOMAIN r

-----------------------------------------------------------------------------
(* Thrown values *)

Error(m) == [isError |-> TRUE, message |-> m]

\* a thrown value that is not an instance of Error
NonError == [isError |-> FALSE, message |-> ""]

-----------------------------------------------------------------------------
(* Program constants *)

\* VALIDATION_LIMITS.MAX_AMOUNT_LENGTH
MAX_AMOUNT_LENGTH == 77

\* Slippage is a percentage; the model counts it in thousandths of a percent
\* so that 0.005, 0.01, 1, 50 and 51 are the integers 5, 10, 1000, 50000, 51000.
\* VALIDATION bounds of validateSwapParams: 0.01 and 50
MIN_SLIPPAGE == 10

MAX_SLIPPAGE == 50000

\* DEFAULTS.SLIPPAGE: 1 (percent)
DEFAULTS_SLIPPAGE == 1000

\* the default of the destructuring in estimateSwapGas: slippage = 1
ESTIMATE_DEFAULT_SLIPPAGE == 1000

\* GAS_FALLBACKS
GAS_FALLBACKS ==
    [ STARKNET |-> [ GAS_ESTIMATE |-> Str(<<5,0,0,0,0>>),
                     GAS_PRICE    |-> Str(<<1,0,0,0,0,0,0,0,0,0>>) ],
      EVM      |-> [ GAS_ESTIMATE |-> Str(<<2,0,0,0,0,0>>),
                     GAS_PRICE    |-> Str(<<2,0,0,0,0,0,0,0,0,0,0>>) ] ]

EXPLORER_URLS ==
    [ base     |-> "https://basescan.org/tx",
      scroll   |-> "https://scrollscan.com/tx",
      starknet |-> "https://starkscan.co/tx" ]

SUPPORTED_CHAINS == <<"base", "starknet", "scroll">>

\* the native-token sentinel of approveTokenIfNeeded
NATIVE_SENTINEL == "0x0000000000000000000000000000000000000000"

-----------------------------------------------------------------------------
(* toBigInt (amount utilities) *)

Includes(s, c) == \E k \in 1..Len(s) : s[k] = c

AllDigits(s) == \A k \in 1..Len(s) : IsDigitChar(s[k])

RECURSIVE TrimLeft(_)
TrimLeft(s) == IF s # <<>> /\ Head(s) = " " THEN TrimLeft(Tail(s)) ELSE s

\* String.prototype.trim
Trim(s) == Reverse(TrimLeft(Reverse(TrimLeft(s))))

RECURSIVE HexValue(_, _)
HexValue(s, acc) ==
    IF s = <<>> THEN acc ELSE HexValue(Tail(s), 16 * acc + DigitOf(Head(s)))

\* BigInt(string): StringToBigInt of the trimmed text. The empty text is 0n,
\* a decimal literal may carry a sign, a 0x literal may not; anything else is
\* a SyntaxError. (The amounts of the model hold no hex letters, and no 0b/0o.)
JsBigInt(s) ==
    LET t == Trim(s)
    IN  IF t = <<>> THEN [ok |-> TRUE, neg |-> FALSE, mag |-> <<0>>]
        ELSE IF AllDigits(t)
        THEN [ok |-> TRUE, neg |-> FALSE, mag |-> BigOfDigits(t)]
        ELSE IF Head(t) \in {"+", "-"} /\ Len(t) > 1 /\ AllDigits(Tail(t))
        THEN [ok |-> TRUE,
              neg |-> Head(t) = "-" /\ BigOfDigits(Tail(t)) # <<0>>,
              mag |-> BigOfDigits(Tail(t))]
        ELSE IF Len(t) > 2 /\ t[1] = "0" /\ t[2] = "x" /\ AllDigits(SubSeq(t, 3, Len(t)))
        THEN [ok |-> TRUE, neg |-> FALSE,
              mag |-> NatToBig(HexValue(SubSeq(t, 3, Len(t)), 0))]
        ELSE [ok |-> FALSE]

InvalidLiteral == <<"i", "n", "v", "a", "l", "i", "d">>

\* toBigInt(amount): [ok |-> TRUE, neg, value] or [ok |-> FALSE, error]
toBigInt(amount) ==
    IF amount = <<>> \/ Trim(amount) = <<>>
    THEN [ok |-> FALSE, error |-> Error("Amount cannot be empty")]
    ELSE IF Head(amount) = "-"
    THEN [ok |-> FALSE, error |-> Error("Amount cannot be negative")]
    ELSE IF Includes(amount, ".") \/ amount = <<"0", "x">> \/ amount = InvalidLiteral
    THEN [ok |-> FALSE, error |-> Error("Invalid amount format")]
    ELSE IF Includes(amount, "e") \/ Len(amount) > MAX_AMOUNT_LENGTH
    THEN [ok |-> FALSE, error |-> Error("Amount overflow")]
    ELSE LET b == JsBigInt(amount)
         IN  IF b.ok
             THEN [ok |-> TRUE, neg |-> b.neg, value |-> b.mag]
             ELSE [ok |-> FALSE, error |-> Error("Invalid amount format")]

-----------------------------------------------------------------------------
(* convertAmount and formatAmountPretty (amount utilities), with the two
   functions of the viem library they call, formatUnits and parseUnits *)

\* a + 1n on bigints
BigInc(a) == StripZeros(Reverse(AddLE(Reverse(a), <<1>>, 0)))

Zeros(n) == [k \in 1..n |-> "0"]

\* String.prototype.padStart(n, "0") and padEnd(n, "0")
PadStart(s, n) == IF Len(s) >= n THEN s ELSE Zeros(n - Len(s)) \o s

\* mutant: the fraction is not padded to the number of decimals
PadEnd_NoPadding(s, n) == s

PadEnd(s, n) == IF Len(s) >= n THEN s ELSE s \o Zeros(n - Len(s))

\* s.replace(/(0+)$/, ""): the trailing zeros removed
RECURSIVE StripTrailingZeros(_)
StripTrailingZeros(s) ==
    IF s # <<>> /\ s[Len(s)] = "0"
    THEN StripTrailingZeros(SubSeq(s, 1, Len(s) - 1)) ELSE s

\* the number of "." in s, and the position of the first one (0 when none)
Dots(s) == Cardinality({k \in 1..Len(s) : s[k] = "."})

DotAt(s) == IF Includes(s, ".") THEN CHOOSE k \in 1..Len(s) :
                                         s[k] = "." /\ \A j \in 1..(k-1) : s[j] # "."
            ELSE 0

\* value.split(".")[0] and value.split(".")[1] (<<>> standing for undefined
\* is told apart by Includes(value, "."))
BeforeDot(s) == IF DotAt(s) = 0 THEN s ELSE SubSeq(s, 1, DotAt(s) - 1)

AfterDot(s) ==
    IF DotAt(s) = 0 THEN <<>>
    ELSE LET rest == SubSeq(s, DotAt(s) + 1, Len(s))
         IN  IF DotAt(rest) = 0 THEN rest ELSE SubSeq(rest, 1, DotAt(rest) - 1)

\* viem formatUnits(value, decimals), value given by sign and magnitude
formatUnits(neg, mag, decimals) ==
    LET display  == PadStart(BigToString(mag), decimals)
        integer  == SubSeq(display, 1, Len(display) - decimals)
        fraction == StripTrailingZeros(
                        SubSeq(display, Len(display) - decimals + 1, Len(display)))
    IN  (IF neg THEN <<"-">> ELSE <<>>)
        \o (IF integer = <<>> THEN <<"0">> ELSE integer)
        \o (IF fraction = <<>> THEN <<>> ELSE <<".">> \o fraction)

\* /^(-?)([0-9]*)\.?([0-9]*)$/.test(value)
IsDecimalNumber(value) ==
    LET body == IF value # <<>> /\ Head(value) = "-" THEN Tail(value) ELSE value
    IN  /\ Dots(body) <= 1
        /\ AllDigits(BeforeDot(body))
        /\ AllDigits(AfterDot(body))

\* Math.round(Number(unit + "." + right)) - unit, for a digit string right:
\* 1 when 0.right >= 0.5. (The fractions of the model are short enough for
\* Number to tell them from 0.5.)
RoundsUp(right) == right # <<>> /\ DigitOf(Head(right)) >= 5

\* BigInt(s) + 1n as a string, for a digit string s ("" is 0n)
IncString(s) ==
    BigToString(BigInc(IF s = <<>> THEN <<0>> ELSE BigOfDigits(s)))

\* viem parseUnits(value, decimals): [ok |-> TRUE, neg, mag], or [ok |-> FALSE]
\* for InvalidDecimalNumberError
parseUnits(value, decimals) ==
    IF ~IsDecimalNumber(value) THEN [ok |-> FALSE]
    ELSE
    LET negative == value # <<>> /\ Head(value) = "-"
        body     == IF negative THEN Tail(value) ELSE value
        integer0 == BeforeDot(body)
        fraction0 == StripTrailingZeros(
                        IF Includes(body, ".") THEN AfterDot(body) ELSE <<"0">>)
        parts ==
            IF decimals = 0
            THEN [integer  |-> IF RoundsUp(fraction0) THEN IncString(integer0)
                               ELSE integer0,
                  fraction |-> <<>>]
            ELSE IF Len(fraction0) > decimals
            THEN LET left    == SubSeq(fraction0, 1, decimals - 1)
                     unit    == DigitOf(fraction0[decimals])
                     right   == SubSeq(fraction0, decimals + 1, Len(fraction0))
                     rounded == unit + (IF RoundsUp(right) THEN 1 ELSE 0)
                     f1 == IF rounded > 9
                           THEN PadStart(IncString(left) \o <<"0">>, Len(left) + 1)
                           ELSE left \o <<DigitChars[rounded + 1]>>
                 IN  IF Len(f1) > decimals
                     THEN [integer  |-> IncString(integer0),
                           fraction |-> SubSeq(Tail(f1), 1, decimals)]
                     ELSE [integer  |-> integer0,
                           fraction |-> SubSeq(f1, 1, decimals)]
            ELSE [integer |-> integer0, fraction |-> PadEnd(fraction0, decimals)]
        all == parts.integer \o parts.fraction
        mag == IF all = <<>> THEN <<0>> ELSE BigOfDigits(all)
    IN  [ok |-> TRUE, neg |-> negative /\ mag # <<0>>, mag |-> mag]

\* bigint.toString() with its sign
SignedToString(neg, mag) == (IF neg THEN <<"-">> ELSE <<>>) \o BigToString(mag)

\* convertAmount(amount, decimals, operation):
\* [ok |-> TRUE, value] or [ok |-> FALSE, error]
convertAmount(amount, decimals, operation) ==
    IF amount = <<>> \/ Trim(amount) = <<>>
    THEN [ok |-> FALSE, error |-> Error("Amount cannot be empty")]
    ELSE IF Head(amount) = "-"
    THEN [ok |-> FALSE, error |-> Error("Amount cannot be negative")]
    ELSE IF operation = "parse"
            /\ (Dots(amount) + 1 > 2 \/ Includes(amount, "e") \/ amount = InvalidLiteral)
    THEN [ok |-> FALSE, error |-> Error("Invalid amount format")]
    ELSE IF operation = "format"
    THEN LET b == JsBigInt(amount)
         IN  IF ~b.ok
             THEN [ok |-> FALSE, error |-> Error("Invalid amount format for formatting")]
             ELSE [ok |-> TRUE, value |-> formatUnits(b.neg, b.mag, decimals)]
    ELSE LET u == parseUnits(amount, decimals)
         IN  IF ~u.ok
             THEN [ok |-> FALSE, error |-> Error("Invalid amount format for parsing")]
             ELSE [ok |-> TRUE, value |-> SignedToString(u.neg, u.mag)]

\* the default of the parameter maxDecimals of formatAmountPretty
DEFAULT_MAX_DECIMALS == 6

\* parseFloat(formatted).toFixed(maxDecimals) for formatted = integer.fraction
\* as formatUnits writes it: the decimal nearest to the number with maxDecimals
\* fractional digits, the larger one of two equally near. Number.prototype.toFixed
\* rounds the double that parseFloat returns; for the short digit strings of the
\* model that double rounds as the decimal itself does, except when the decimal
\* lies exactly half way (see InexactTie).
toFixed(neg, integer, fraction, maxDecimals) ==
    LET body ==
          IF Len(fraction) <= maxDecimals
          THEN integer \o (IF maxDecimals = 0 THEN <<>>
                           ELSE <<".">> \o PadEnd(fraction, maxDecimals))
          ELSE LET kept == BigOfDigits(integer \o SubSeq(fraction, 1, maxDecimals))
                   up   == DigitOf(fraction[maxDecimals + 1]) >= 5
                   n    == PadStart(BigToString(IF up THEN BigInc(kept) ELSE kept),
                                    maxDecimals + 1)
               IN  SubSeq(n, 1, Len(n) - maxDecimals)
                   \o (IF maxDecimals = 0 THEN <<>>
                       ELSE <<".">> \o SubSeq(n, Len(n) - maxDecimals + 1, Len(n)))
    IN  (IF neg THEN <<"-">> ELSE <<>>) \o body

\* formatAmountPretty(amount, decimals, maxDecimals):
\* [ok |-> TRUE, value] or [ok |-> FALSE, error]
formatAmountPretty(amount, decimals, maxDecimals) ==
    LET b == JsBigInt(amount)
    IN  IF amount = <<>> \/ Trim(amount) = <<>> \/ amount = InvalidLiteral \/ ~b.ok
        THEN [ok |-> FALSE, error |-> Error("Invalid amount for formatting")]
        ELSE LET formatted == formatUnits(FALSE, b.mag, decimals)
                 rounded   == toFixed(b.neg, BeforeDot(formatted),
                                      AfterDot(formatted), maxDecimals)
                 whole     == BeforeDot(rounded)
                 trimmed   == StripTrailingZeros(AfterDot(rounded))
             IN  [ok |-> TRUE,
                  value |-> IF trimmed = <<>> THEN whole
                            ELSE whole \o <<".">> \o trimmed]

-----------------------------------------------------------------------------
(* validateSwapParams *)

\* mutant: the check that the two token addresses differ is missing
validateSwapParams_NoDistinctCheck(params) ==
    LET e1 == IF params.amount = <<>> \/ params.amount = <<"0">>
              THEN <<"Amount must be greater than 0">> ELSE <<>>
        e2 == IF params.tokenInAddress = ""
              THEN <<"Token in address is required">> ELSE <<>>
        e3 == IF params.tokenOutAddress = ""
              THEN <<"Token out address is required">> ELSE <<>>
        e5 == IF HasKey(params, "slippage")
                 /\ (params.slippage < MIN_SLIPPAGE \/ params.slippage > MAX_SLIPPAGE)
              THEN <<"Slippage must be between 0.01% and 50%">> ELSE <<>>
        e6 == IF params.amount # <<>> /\ ~toBigInt(params.amount).ok
              THEN <<"Invalid amount format">> ELSE <<>>
        errors == e1 \o e2 \o e3 \o e5 \o e6
    IN  [isValid |-> Len(errors) = 0, errors |-> errors]

validateSwapParams(params) ==
    LET e1 == IF params.amount = <<>> \/ params.amount = <<"0">>
              THEN <<"Amount must be greater than 0">> ELSE <<>>
        e2 == IF params.tokenInAddress = ""
              THEN <<"Token in address is required">> ELSE <<>>
        e3 == IF params.tokenOutAddress = ""
              THEN <<"Token out address is required">> ELSE <<>>
        e4 == IF params.tokenInAddress = params.tokenOutAddress
              THEN <<"Token in and token out addresses must be different">> ELSE <<>>
        e5 == IF HasKey(params, "slippage")
                 /\ (params.slippage < MIN_SLIPPAGE \/ params.slippage > MAX_SLIPPAGE)
              THEN <<"Slippage must be between 0.01% and 50%">> ELSE <<>>
        e6 == IF params.amount # <<>> /\ ~toBigInt(params.amount).ok
              THEN <<"Invalid amount format">> ELSE <<>>
        errors == e1 \o e2 \o e3 \o e4 \o e5 \o e6
    IN  [isValid |-> Len(errors) = 0, errors |-> errors]

-----------------------------------------------------------------------------
(* Chain registry (fibrousRouter.supportedChains) and chain configuration *)

Chains == {"base", "scroll", "starknet"}

EvmChains == {"base", "scroll"}

RegistryEntry(name, id, router) ==
    [chain_name |-> name, chain_id |-> id, router_address |-> router]

\* the registry as the aggregation service reports it
RegistryFull ==
    << RegistryEntry("starknet", "SN_MAIN", "0xRouterStarknet"),
       RegistryEntry("base", "8453", "0xRouterBase"),
       RegistryEntry("scroll", "534352", "0xRouterScroll") >>

\* the same entries without a router address
RegistryNoRouter ==
    [k \in 1..Len(RegistryFull) |-> [RegistryFull[k] EXCEPT !.router_address = ""]]

\* supportedChains.find((c) => c.chain_name === name)
Find(chains, name) ==
    LET hits == {k \in 1..Len(chains) : chains[k].chain_name = name}
    IN  IF hits = {}
        THEN [found |-> FALSE]
        ELSE [found |-> TRUE,
              entry |-> chains[CHOOSE k \in hits : \A j \in hits : k <= j]]

\* ...?.chain_id and ...?.router_address; undefined is ""
ChainIdIn(chains, name) ==
    LET f == Find(chains, name) IN IF f.found THEN f.entry.chain_id ELSE ""

RouterAddressIn(chains, name) ==
    LET f == Find(chains, name) IN IF f.found THEN f.entry.router_address ELSE ""

\* Private keys of the model: a 32-byte hex key, and a hex key of the wrong
\* length (long enough for validatePrivateKey, rejected by the signer library)
KeyGood == "0x1234567890123456789012345678901234567890123456789012345678901234"

KeyWrongLength == "0x12345678901234567890123456789012345678"

\* privateKeyToAccount(key) of the signer library
privateKeyToAccount(key) ==
    IF key = KeyGood
    THEN [ok |-> TRUE, address |-> "0xOwner"]
    ELSE [ok |-> FALSE, error |-> Error("invalid private key")]

HasPublicKey(cfg) == HasKey(cfg, "publicKey") /\ cfg.publicKey # ""

\* getWalletAddress(chainConfig, chainName)
getWalletAddress(cfg, chainName) ==
    IF chainName = "starknet"
    THEN IF ~HasPublicKey(cfg)
         THEN [ok |-> FALSE, error |-> Error("Starknet public key is required")]
         ELSE [ok |-> TRUE, address |-> cfg.publicKey]
    ELSE privateKeyToAccount(cfg.privateKey)

\* getEvmExplorerUrl(txHash, chainName)
\* mutant: one template for every chain
getEvmExplorerUrl_OneTemplate(txHash, chainName) == EXPLORER_URLS["base"] \o "/" \o txHash

getEvmExplorerUrl(txHash, chainName) == EXPLORER_URLS[chainName] \o "/" \o txHash

-----------------------------------------------------------------------------
(* Server configuration read from the environment *)

\* A JavaScript number is counted in thousandths (1.2 is 1200).
\* MIN_GAS_MULTIPLIER 1.0, MAX_GAS_MULTIPLIER 5.0, default 1.2
MIN_GAS_MULTIPLIER == 1000

MAX_GAS_MULTIPLIER == 5000

DEFAULT_GAS_MULTIPLIER == 1200

\* MIN_TIMEOUT 30, MAX_TIMEOUT 3600, default 300 (seconds)
MIN_TIMEOUT == 30000

MAX_TIMEOUT == 3600000

DEFAULT_TIMEOUT == 300000

\* NaN
NaN == -1

\* parseFloat of the environment texts the model uses
parseFloat(text) ==
    CASE text = "0.5"   -> 500
      [] text = "1.2"   -> 1200
      [] text = "1.255" -> 1255
      [] text = "1.5"   -> 1500
      [] text = "9"     -> 9000
      [] OTHER          -> NaN

\* getEnvNumber(key, defaultValue, min, max)
getEnvNumber(e, key, defaultValue, min, max) ==
    IF e[key] = "" THEN [ok |-> TRUE, value |-> defaultValue]
    ELSE LET num == parseFloat(e[key])
         IN  IF num = NaN
             THEN [ok |-> FALSE, error |-> Error("must be a valid number")]
             ELSE IF num < min
             THEN [ok |-> FALSE, error |-> Error("must be >= min")]
             ELSE IF num > max
             THEN [ok |-> FALSE, error |-> Error("must be <= max")]
             ELSE [ok |-> TRUE, value |-> num]

\* getServerConfig()
getServerConfig(e) ==
    LET s == getEnvNumber(e, "DEFAULT_SLIPPAGE", DEFAULTS_SLIPPAGE, MIN_SLIPPAGE, MAX_SLIPPAGE)
        g == getEnvNumber(e, "GAS_PRICE_MULTIPLIER", DEFAULT_GAS_MULTIPLIER,
                          MIN_GAS_MULTIPLIER, MAX_GAS_MULTIPLIER)
        t == getEnvNumber(e, "TRANSACTION_TIMEOUT", DEFAULT_TIMEOUT, MIN_TIMEOUT, MAX_TIMEOUT)
    IN  IF ~s.ok THEN s
        ELSE IF ~g.ok THEN g
        ELSE IF ~t.ok THEN t
        ELSE [ok |-> TRUE, defaultSlippage |-> s.value,
              gasPriceMultiplier |-> g.value, transactionTimeout |-> t.value]

\* BigInt(Math.round(multiplier * 100))
MultiplierBI(multiplier) == NatToBig((multiplier + 5) \div 10)

\* mutant: the division before the multiplication
FinalGasPrice_DivideFirst(gasPrice, multiplier) ==
    BigMul(BigDiv100(gasPrice), MultiplierBI(multiplier))

\* (gasPrice * multiplierBI) / 100n
FinalGasPrice(gasPrice, multiplier) ==
    BigDiv100(BigMul(gasPrice, MultiplierBI(multiplier)))

-----------------------------------------------------------------------------
(* Invocation records *)

Idle ==
    [ op |-> "none", pc |-> "idle",
      params |-> [chainName |-> "none"], cfg |-> [rpcUrl |-> ""],
      amountBI |-> <<>>, slippage |-> 0, receiver |-> "", owner |-> "",
      router |-> "", chainId |-> "", calldata |-> "", approveCall |-> <<>>,
      hash |-> "", receiptStatus |-> "", finalGasPrice |-> <<>>, gasEstimate |-> <<>>,
      allowanceRead |-> <<>>, caught |-> <<>>, failedAt |-> "",
      calls |-> <<>>, entered |-> <<>>, outcome |-> [kind |-> "pending"],
      response |-> [kind |-> "none"], previous |-> <<>>, log |-> <<>>,
      networkGasPrice |-> <<>>, receiptGasUsed |-> <<>>,
      approvalStatus |-> "", allowanceAtSend |-> <<>>, after |-> {} ]

\* r with the fields of upd replaced
Merge(r, upd) == [k \in DOMAIN r |-> IF k \in DOMAIN upd THEN upd[k] ELSE r[k]]

Returned(v) == [kind |-> "returned", value |-> v]

Thrown(t) == [kind |-> "thrown", error |-> t]

\* the catch blocks of executeSwap, executeStarknetSwap and executeEvmSwap
\* mutant: the conversion and the address lookup outside the try block
executeSwapCatch_Escapes(t) == Thrown(t)

executeSwapCatch(t) ==
    Returned([success |-> FALSE,
              error |-> IF t.isError THEN t.message
                        ELSE "Unknown error during swap execution"])

\* mutant: `error: error.message` without the instanceof test
executeStarknetSwapCatch_NoFallbackMessage(t) ==
    IF t.isError THEN Returned([success |-> FALSE, error |-> t.message])
    ELSE Returned([success |-> FALSE])

executeStarknetSwapCatch(t) ==
    Returned([success |-> FALSE,
              error |-> IF t.isError THEN t.message ELSE "Starknet swap failed"])

\* mutant: the generic message of executeSwap's own catch block
executeEvmSwapCatch_OuterMessage(t) ==
    Returned([success |-> FALSE,
              error |-> IF t.isError THEN t.message
                        ELSE "Unknown error during swap execution"])

executeEvmSwapCatch(t) ==
    Returned([success |-> FALSE,
              error |-> IF t.isError THEN t.message ELSE "EVM swap failed"])

\* the lines executeSwap writes once the amount and the receiver are known;
\* a line is the sequence of the parts of its template
executeSwapInfoLines(params, finalReceiverAddress, slippage) ==
    << <<"[INFO] Starting ", params.chainName, " swap: ", Text(params.amount), " wei">>,
       <<"[INFO] From: ", params.tokenInAddress>>,
       <<"[INFO] To: ", params.tokenOutAddress>>,
       <<"[INFO] Receiver: ", finalReceiverAddress>>,
       <<"[INFO] Slippage: ", NumberToString(slippage), "%">> >>

\* the line of executeSwap's catch block
executeSwapErrorLine(t) ==
    <<"[ERROR] Swap execution failed: ",
      IF t.isError THEN t.message ELSE "Unknown error during swap execution">>

\* the line of executeEvmSwap's catch block
executeEvmSwapErrorLine(t) ==
    <<"EVM Swap Error: ", IF t.isError THEN t.message ELSE "EVM swap failed">>

\* mutant: a step that threw is tried once more before the catch block
EvmFailed_RetriesOnce(r, calls, t) ==
    IF r.failedAt = ""
    THEN Merge(r, [calls |-> calls, caught |-> <<t>>, failedAt |-> r.pc])
    ELSE Merge(r, [calls |-> calls, pc |-> "done", caught |-> <<t>>, failedAt |-> r.pc,
                   log |-> Append(r.log, executeEvmSwapErrorLine(t)),
                   outcome |-> executeEvmSwapCatch(t)])

\* a step of executeEvmSwap threw t: control passes to its catch block
EvmFailed(r, calls, t) ==
    Merge(r, [calls |-> calls, pc |-> "done", caught |-> <<t>>, failedAt |-> r.pc,
              log |-> Append(r.log, executeEvmSwapErrorLine(t)),
              outcome |-> executeEvmSwapCatch(t)])

\* mutant: approveTokenIfNeeded swallows its own failures
ApproveFailed_Swallowed(r, calls, t) ==
    Merge(r, [calls |-> calls, caught |-> <<t>>, failedAt |-> r.pc,
              pc |-> "evm_buildRoute"])

\* a step of approveTokenIfNeeded threw t: nothing in approveTokenIfNeeded
\* catches it, so it reaches the catch block of executeEvmSwap
ApproveFailed(r, calls, t) == EvmFailed(r, calls, t)

\* a step of executeStarknetSwap threw t: control passes to its catch block
SnFailed(r, calls, t) ==
    Merge(r, [calls |-> calls, pc |-> "done", caught |-> <<t>>, failedAt |-> r.pc,
              outcome |-> executeStarknetSwapCatch(t)])

\* the request object handed to fibrousRouter.buildRouteAndCalldata by the
\* execution engine
RouteRequest(r) ==
    LET base == [inputAmount |-> r.amountBI,
                 tokenInAddress |-> r.params.tokenInAddress,
                 tokenOutAddress |-> r.params.tokenOutAddress,
                 slippage |-> r.slippage,
                 destination |-> r.receiver,
                 chainId |-> r.chainId]
    IN  IF HasKey(r.params, "options")
        THEN [k \in DOMAIN base \cup {"options"} |->
                 IF k = "options" THEN r.params.options ELSE base[k]]
        ELSE base

-----------------------------------------------------------------------------
(* Outcomes of the collaborators (route client, RPC endpoints) *)

\* what a failing collaborator may throw: an Error with a message, an Error
\* without a message, or a value that is not an Error
Throwables(m) == {Error(m), Error(""), NonError}

ApprovalTxHash == "0xapprovaltxhash"

SwapTxHash == "0xevmtxhash"

StarknetTxHash == "0xabc123def456"

\* network gas prices an RPC endpoint may report
GasPrices == { <<2,0,0,0,0,0,0,0,0,0,0>>, <<7>> }

\* gas amounts an RPC endpoint may report (estimate, receipt.gasUsed)
GasAmounts == { <<2,0,0,0,0,0>>, <<1,8,0,0,0,0>> }

-----------------------------------------------------------------------------
(* executeSwap: synchronous prefixes *)

\* approveTokenIfNeeded up to its first read: the sentinel skips the sub-step
approveTokenIfNeededEntry(tokenAddress) ==
    IF tokenAddress = NATIVE_SENTINEL THEN "evm_buildRoute" ELSE "evm_readAllowance"

\* mutant: the router address is used without the test for its absence
executeEvmSwapEntry_NoRouterCheck(r, reg) ==
    LET account == privateKeyToAccount(r.cfg.privateKey)
    IN  IF ~account.ok
        THEN EvmFailed(r, r.calls, account.error)
        ELSE [pc |-> approveTokenIfNeededEntry(r.params.tokenInAddress),
              owner |-> account.address,
              router |-> RouterAddressIn(reg, r.params.chainName),
              chainId |-> ChainIdIn(reg, r.params.chainName)]

\* executeEvmSwap from its entry to the first suspension
executeEvmSwapEntry(r, reg) ==
    LET account   == privateKeyToAccount(r.cfg.privateKey)
        chainData == Find(reg, r.params.chainName)
    IN  IF ~account.ok
        THEN EvmFailed(r, r.calls, account.error)
        ELSE IF ~chainData.found \/ chainData.entry.router_address = ""
        THEN EvmFailed(r, r.calls, Error("Router address not found"))
        ELSE [pc |-> approveTokenIfNeededEntry(r.params.tokenInAddress),
              owner |-> account.address,
              router |-> chainData.entry.router_address,
              chainId |-> chainData.entry.chain_id]

\* mutant: no public key check at the entry of executeStarknetSwap
executeStarknetSwapEntry_NoKeyCheck(r) ==
    [pc |-> "sn_buildApprove",
     owner |-> IF HasPublicKey(r.cfg) THEN r.cfg.publicKey ELSE ""]

\* executeStarknetSwap from its entry to the first suspension
executeStarknetSwapEntry(r) ==
    IF ~HasPublicKey(r.cfg)
    THEN SnFailed(r, r.calls, Error("Starknet public key is required"))
    ELSE [pc |-> "sn_buildApprove", owner |-> r.cfg.publicKey]

\* executeSwap from its entry to the first suspension
executeSwapEntry(r, reg) ==
    LET amountBI == toBigInt(r.params.amount)
        wallet   == getWalletAddress(r.cfg, r.params.chainName)
        given    == HasKey(r.params, "receiverAddress") /\ r.params.receiverAddress # ""
        slip     == IF HasKey(r.params, "slippage") THEN r.params.slippage
                    ELSE DEFAULTS_SLIPPAGE
    IN  IF ~amountBI.ok
        THEN [pc |-> "done", caught |-> <<amountBI.error>>, failedAt |-> "toBigInt",
              log |-> Append(r.log, executeSwapErrorLine(amountBI.error)),
              outcome |-> executeSwapCatch(amountBI.error)]
        ELSE IF ~given /\ ~wallet.ok
        THEN [pc |-> "done", caught |-> <<wallet.error>>, failedAt |-> "getWalletAddress",
              log |-> Append(r.log, executeSwapErrorLine(wallet.error)),
              outcome |-> executeSwapCatch(wallet.error)]
        ELSE LET finalReceiverAddress == IF given THEN r.params.receiverAddress
                                         ELSE wallet.address
                 r1 == Merge(r, [amountBI |-> amountBI.value,
                                 slippage |-> slip,
                                 receiver |-> finalReceiverAddress,
                                 log |-> r.log \o executeSwapInfoLines(
                                             r.params, finalReceiverAddress, slip)])
             IN  IF r.params.chainName = "starknet"
                 THEN Merge(r1, executeStarknetSwapEntry(r1))
                 ELSE Merge(r1, executeEvmSwapEntry(r1, reg))

-----------------------------------------------------------------------------
(* The execute-swap tool handler: what it makes of executeSwap's result *)

\* createErrorResponse(error, context, chainName), reduced to what it carries
createErrorResponse(error, context, chainName) ==
    [isError |-> TRUE,
     errorMessage |-> IF error.isError THEN error.message ELSE "Unknown error",
     context |-> context, chainName |-> chainName]

\* createSuccessResponse(data, context): a response without an isError key
createSuccessResponse(data, context) == [data |-> data, context |-> context]

\* executeSwapHandler after `await executeSwap(...)`
executeSwapHandlerResume(r) ==
    IF r.outcome.kind = "thrown"
    THEN createErrorResponse(r.outcome.error, "execute-swap", r.params.chainName)
    ELSE LET swapResult == r.outcome.value
         IN  IF swapResult.success
             THEN createSuccessResponse(swapResult, "Swap executed successfully")
             ELSE createErrorResponse(
                      Error(IF swapResult.error # "" THEN swapResult.error
                            ELSE "Swap execution failed"),
                      "execute-swap", r.params.chainName)

\* an invocation record after a step: a handler resumes as soon as the
\* function it awaits has settled
Settle(r) ==
    IF r.pc = "done" /\ r.op = "executeSwapHandler" /\ r.outcome.kind # "pending"
    THEN Merge(r, [response |-> executeSwapHandlerResume(r)])
    ELSE r

Log(r, call) == Append(r.calls, call)

-----------------------------------------------------------------------------
(* executeSwap on the account-based chains: one action per suspension *)

\* mutant: `if (allowance > amount) return`
AllowanceCovers_Strict(current, amount) == BigGe(current, amount) /\ current # amount

\* mutant: the approval is submitted whatever the allowance is
AllowanceCovers_NotCompared(current, amount) == FALSE

\* approveTokenIfNeeded: `if (allowance >= amount) return`
AllowanceCovers(current, amount) == BigGe(current, amount)

\* approveTokenIfNeeded: publicClient.readContract(allowance)
ApproveReadAllowance(i) ==
    /\ inv[i].pc = "evm_readAllowance"
    /\ LET r == inv[i]
           calls == Log(r, [fn |-> "readContract", functionName |-> "allowance",
                            address |-> r.params.tokenInAddress,
                            args |-> <<r.owner, r.router>>])
           current == allowance[r.params.chainName]
       IN  \/ inv' = [inv EXCEPT ![i] = Settle(Merge(r,
                        [calls |-> calls, allowanceRead |-> current,
                         pc |-> IF AllowanceCovers(current, r.amountBI)
                                THEN "evm_buildRoute" ELSE "evm_approve"]))]
           \/ \E t \in Throwables("allowance read failed") :
                inv' = [inv EXCEPT ![i] = Settle(ApproveFailed(r, calls, t))]
    /\ UNCHANGED <<env, registry, allowance>>

\* mutant: the approval is submitted and its confirmation is not awaited
ApproveWrite_NotAwaited(i) ==
    /\ inv[i].pc = "evm_approve"
    /\ LET r == inv[i]
           calls == Log(r, [fn |-> "writeContract", functionName |-> "approve",
                            address |-> r.params.tokenInAddress,
                            args |-> <<r.router, r.amountBI>>])
       IN  \/ inv' = [inv EXCEPT ![i] = Settle(Merge(r,
                        [calls |-> calls, pc |-> "evm_buildRoute",
                         hash |-> ApprovalTxHash]))]
           \/ \E t \in Throwables("Approval rejected") :
                inv' = [inv EXCEPT ![i] = Settle(ApproveFailed(r, calls, t))]
    /\ UNCHANGED <<env, registry, allowance>>

\* approveTokenIfNeeded: walletClient.writeContract(approve)
ApproveWrite(i) ==
    /\ inv[i].pc = "evm_approve"
    /\ LET r == inv[i]
           calls == Log(r, [fn |-> "writeContract", functionName |-> "approve",
                            address |-> r.params.tokenInAddress,
                            args |-> <<r.router, r.amountBI>>])
       IN  \/ inv' = [inv EXCEPT ![i] = Settle(Merge(r,
                        [calls |-> calls, pc |-> "evm_waitApprove",
                         hash |-> ApprovalTxHash]))]
           \/ \E t \in Throwables("Approval rejected") :
                inv' = [inv EXCEPT ![i] = Settle(ApproveFailed(r, calls, t))]
    /\ UNCHANGED <<env, registry, allowance>>

\* approveTokenIfNeeded: publicClient.waitForTransactionReceipt of the
\* approval. A mined approval sets the allowance to the approved amount; a
\* reverted one leaves it; the wait may also throw, the transaction mined or not.
ApproveWait(i) ==
    /\ inv[i].pc = "evm_waitApprove"
    /\ LET r == inv[i]
           calls == Log(r, [fn |-> "waitForTransactionReceipt", hash |-> r.hash])
           approved == [allowance EXCEPT ![r.params.chainName] = r.amountBI]
       IN  \/ \E status \in {"success", "reverted"} :
                /\ inv' = [inv EXCEPT ![i] = Settle(Merge(r,
                           [calls |-> calls, pc |-> "evm_buildRoute",
                            approvalStatus |-> status]))]
                /\ allowance' = IF status = "success" THEN approved ELSE allowance
           \/ \E t \in Throwables("approval confirmation failed") :
                /\ inv' = [inv EXCEPT ![i] = Settle(ApproveFailed(r, calls, t))]
                /\ allowance' \in {approved, allowance}
    /\ UNCHANGED <<env, registry>>

\* fibrousRouter.buildRouteAndCalldata, then getServerConfig()
EvmBuildRoute(i) ==
    /\ inv[i].pc = "evm_buildRoute"
    /\ LET r == inv[i]
           calls == Log(r, [fn |-> "buildRouteAndCalldata", request |-> RouteRequest(r)])
           serverConfig == getServerConfig(env)
       IN  \/ inv' = [inv EXCEPT ![i] = Settle(
                        IF serverConfig.ok
                        THEN Merge(r, [calls |-> calls, pc |-> "evm_getGasPrice",
                                       calldata |-> "0xcalldata"])
                        ELSE EvmFailed(r, calls, serverConfig.error))]
           \/ \E t \in Throwables("route unavailable") :
                inv' = [inv EXCEPT ![i] = Settle(EvmFailed(r, calls, t))]
    /\ UNCHANGED <<env, registry, allowance>>

\* publicClient.getGasPrice, then the multiplier
EvmGetGasPrice(i) ==
    /\ inv[i].pc = "evm_getGasPrice"
    /\ LET r == inv[i]
           calls == Log(r, [fn |-> "getGasPrice"])
       IN  \/ \E gasPrice \in GasPrices :
                inv' = [inv EXCEPT ![i] = Settle(Merge(r,
                        [calls |-> calls, pc |-> "evm_send",
                         networkGasPrice |-> gasPrice,
                         finalGasPrice |->
                             FinalGasPrice(gasPrice, getServerConfig(env).gasPriceMultiplier)]))]
           \/ \E t \in Throwables("gas price unavailable") :
                inv' = [inv EXCEPT ![i] = Settle(EvmFailed(r, calls, t))]
    /\ UNCHANGED <<env, registry, allowance>>

\* walletClient.sendTransaction
EvmSendTransaction(i) ==
    /\ inv[i].pc = "evm_send"
    /\ LET r == inv[i]
           calls == Log(r, [fn |-> "sendTransaction", to |-> r.router,
                            data |-> r.calldata, gasPrice |-> r.finalGasPrice])
       IN  \/ inv' = [inv EXCEPT ![i] = Settle(Merge(r,
                        [calls |-> calls, pc |-> "evm_waitSwap", hash |-> SwapTxHash,
                         allowanceAtSend |-> allowance[r.params.chainName]]))]
           \/ \E t \in Throwables("transaction rejected") :
                inv' = [inv EXCEPT ![i] = Settle(EvmFailed(r, calls, t))]
    /\ UNCHANGED <<env, registry, allowance>>

\* publicClient.waitForTransactionReceipt of the swap, then the result
EvmWaitReceipt(i) ==
    /\ inv[i].pc = "evm_waitSwap"
    /\ LET r == inv[i]
           calls == Log(r, [fn |-> "waitForTransactionReceipt", hash |-> r.hash])
       IN  \/ \E gasUsed \in GasAmounts, status \in {"success", "reverted"} :
                inv' = [inv EXCEPT ![i] = Settle(Merge(r,
                        [calls |-> calls, pc |-> "done", receiptStatus |-> status,
                         receiptGasUsed |-> gasUsed,
                         outcome |-> Returned(
                            [success |-> TRUE,
                             transactionHash |-> r.hash,
                             explorerUrl |-> getEvmExplorerUrl(r.hash, r.params.chainName),
                             gasUsed |-> BigToString(gasUsed)])]))]
           \/ \E t \in Throwables("confirmation failed") :
                inv' = [inv EXCEPT ![i] = Settle(EvmFailed(r, calls, t))]
    /\ UNCHANGED <<env, registry, allowance>>

-----------------------------------------------------------------------------
(* executeSwap on starknet: one action per suspension *)

\* fibrousRouter.buildApproveStarknet, then the chain id lookup
SnBuildApprove(i) ==
    /\ inv[i].pc = "sn_buildApprove"
    /\ LET r == inv[i]
           calls == Log(r, [fn |-> "buildApproveStarknet",
                            args |-> <<r.amountBI, r.params.tokenInAddress>>])
       IN  \/ inv' = [inv EXCEPT ![i] = Settle(Merge(r,
                        [calls |-> calls, pc |-> "sn_buildRoute",
                         approveCall |-> [contractAddress |-> r.params.tokenInAddress,
                                          entrypoint |-> "approve",
                                          calldata |-> <<"0xRouterStarknet", r.amountBI>>],
                         chainId |-> ChainIdIn(registry, "starknet")]))]
           \/ \E t \in Throwables("Starknet execution failed") :
                inv' = [inv EXCEPT ![i] = Settle(SnFailed(r, calls, t))]
    /\ UNCHANGED <<env, registry, allowance>>

\* fibrousRouter.buildRouteAndCalldata, then the router lookup
SnBuildRoute(i) ==
    /\ inv[i].pc = "sn_buildRoute"
    /\ LET r == inv[i]
           calls == Log(r, [fn |-> "buildRouteAndCalldata", request |-> RouteRequest(r)])
           routerAddress == RouterAddressIn(registry, "starknet")
       IN  \/ inv' = [inv EXCEPT ![i] = Settle(
                        IF routerAddress = ""
                        THEN SnFailed(r, calls, Error("Starknet router address not found"))
                        ELSE Merge(r, [calls |-> calls, pc |-> "sn_execute",
                                       calldata |-> "0xcalldata",
                                       router |-> routerAddress]))]
           \/ \E t \in Throwables("route unavailable") :
                inv' = [inv EXCEPT ![i] = Settle(SnFailed(r, calls, t))]
    /\ UNCHANGED <<env, registry, allowance>>

\* the swap call of executeStarknetSwap
SwapCall(routerAddress, calldata) ==
    [contractAddress |-> routerAddress, entrypoint |-> "swap", calldata |-> calldata]

\* mutant: the swap call stands before the approve call
SnExecute_SwapFirst(i) ==
    /\ inv[i].pc = "sn_execute"
    /\ LET r == inv[i]
           calls == Log(r, [fn |-> "execute",
                            calls |-> <<SwapCall(r.router, r.calldata), r.approveCall>>])
       IN  \/ inv' = [inv EXCEPT ![i] = Settle(Merge(r,
                        [calls |-> calls, pc |-> "done", hash |-> StarknetTxHash,
                         outcome |-> Returned(
                            [success |-> TRUE,
                             transactionHash |-> StarknetTxHash,
                             explorerUrl |-> "https://starkscan.co/tx/" \o StarknetTxHash])]))]
           \/ \E t \in Throwables("execution failed") :
                inv' = [inv EXCEPT ![i] = Settle(SnFailed(r, calls, t))]
    /\ UNCHANGED <<env, registry, allowance>>

\* account.execute([approveCall, swapCall]), then the result
SnExecute(i) ==
    /\ inv[i].pc = "sn_execute"
    /\ LET r == inv[i]
           calls == Log(r, [fn |-> "execute",
                            calls |-> <<r.approveCall, SwapCall(r.router, r.calldata)>>])
       IN  \/ inv' = [inv EXCEPT ![i] = Settle(Merge(r,
                        [calls |-> calls, pc |-> "done", hash |-> StarknetTxHash,
                         outcome |-> Returned(
                            [success |-> TRUE,
                             transactionHash |-> StarknetTxHash,
                             explorerUrl |-> "https://starkscan.co/tx/" \o StarknetTxHash])]))]
           \/ \E t \in Throwables("execution failed") :
                inv' = [inv EXCEPT ![i] = Settle(SnFailed(r, calls, t))]
    /\ UNCHANGED <<env, registry, allowance>>

-----------------------------------------------------------------------------
(* estimateSwapGas *)

\* mutant: the fallback families exchanged
estimateSwapGasCatch_Swapped(chainName) ==
    LET fallback == IF chainName = "starknet" THEN GAS_FALLBACKS.EVM
                    ELSE GAS_FALLBACKS.STARKNET
    IN  Returned([gasEstimate |-> fallback.GAS_ESTIMATE,
                  gasPrice |-> fallback.GAS_PRICE,
                  estimatedCost |-> BigToString(BigMul(JsBigInt(fallback.GAS_ESTIMATE).mag,
                                                       JsBigInt(fallback.GAS_PRICE).mag))])

\* the catch block of estimateSwapGas: the fallback estimate of the chain family
estimateSwapGasCatch(chainName) ==
    LET fallback == IF chainName = "starknet" THEN GAS_FALLBACKS.STARKNET
                    ELSE GAS_FALLBACKS.EVM
        fallbackCostBI == BigMul(JsBigInt(fallback.GAS_ESTIMATE).mag,
                                 JsBigInt(fallback.GAS_PRICE).mag)
    IN  Returned([gasEstimate |-> fallback.GAS_ESTIMATE,
                  gasPrice |-> fallback.GAS_PRICE,
                  estimatedCost |-> BigToString(fallbackCostBI)])

\* the request object estimateSwapGas hands to buildRouteAndCalldata
\* (the parameters of the model carry no options)
EstimateRouteRequest(r) ==
    [inputAmount |-> r.amountBI,
     tokenInAddress |-> r.params.tokenInAddress,
     tokenOutAddress |-> r.params.tokenOutAddress,
     slippage |-> r.slippage,
     destination |-> r.receiver,
     chainId |-> r.chainId]

\* the line of estimateSwapGas's catch block: the text, then the caught value
\* as the console renders it
estimateSwapGasWarnLine(chainName, t) ==
    <<"[WARN] Gas estimation failed for ", chainName, ":",
      IF t.isError THEN "Error: " \o t.message ELSE "[object]">>

\* estimateSwapGas from its entry to the first suspension; the amount is
\* converted before the try block
estimateSwapGasEntry(r, reg) ==
    LET amountBI == toBigInt(r.params.amount)
        wallet   == getWalletAddress(r.cfg, r.params.chainName)
        slip     == IF HasKey(r.params, "slippage") THEN r.params.slippage
                    ELSE ESTIMATE_DEFAULT_SLIPPAGE
    IN  IF ~amountBI.ok
        THEN [pc |-> "done", failedAt |-> "toBigInt", outcome |-> Thrown(amountBI.error)]
        ELSE IF ~wallet.ok
        THEN [pc |-> "done", amountBI |-> amountBI.value,
              caught |-> <<wallet.error>>, failedAt |-> "getWalletAddress",
              log |-> Append(r.log, estimateSwapGasWarnLine(r.params.chainName,
                                                            wallet.error)),
              outcome |-> estimateSwapGasCatch(r.params.chainName)]
        ELSE [pc |-> IF r.params.chainName = "starknet" THEN "est_sn_buildApprove"
                     ELSE "est_evm_buildRoute",
              log |-> Append(r.log, <<"[INFO] Estimating gas for ", r.params.chainName,
                                      " swap...">>),
              amountBI |-> amountBI.value,
              slippage |-> slip,
              receiver |-> wallet.address,
              owner |-> wallet.address,
              chainId |-> ChainIdIn(reg, r.params.chainName),
              router |-> RouterAddressIn(reg, r.params.chainName)]

\* a step of estimateSwapGas that failed: the catch block
EstimateFailed(r, calls, t) ==
    Merge(r, [calls |-> calls, pc |-> "done", caught |-> <<t>>, failedAt |-> r.pc,
              log |-> Append(r.log, estimateSwapGasWarnLine(r.params.chainName, t)),
              outcome |-> estimateSwapGasCatch(r.params.chainName)])

\* mutant: the cost computed from the network price, not the multiplied one
EvmEstimateResult_NetworkPriceCost(gasEstimateBI, gasPrice, multiplier) ==
    [gasEstimate |-> BigToString(gasEstimateBI),
     gasPrice |-> BigToString(FinalGasPrice(gasPrice, multiplier)),
     estimatedCost |-> BigToString(BigMul(gasEstimateBI, gasPrice))]

\* the result of a live estimation on an account-based chain
EvmEstimateResult(gasEstimateBI, gasPrice, multiplier) ==
    LET finalGasPrice == FinalGasPrice(gasPrice, multiplier)
        estimatedCost == BigMul(gasEstimateBI, finalGasPrice)
    IN  [gasEstimate |-> BigToString(gasEstimateBI),
         gasPrice |-> BigToString(finalGasPrice),
         estimatedCost |-> BigToString(estimatedCost)]

\* estimate.field?.toString() ?? "0"
FieldOrZero(estimate, field) ==
    IF HasKey(estimate, field) THEN BigToString(estimate[field]) ELSE Str(<<0>>)

\* the result of a live estimation on starknet
StarknetEstimateResult(estimate) ==
    [gasEstimate |-> FieldOrZero(estimate, "gas_consumed"),
     gasPrice |-> FieldOrZero(estimate, "gas_price"),
     estimatedCost |-> FieldOrZero(estimate, "overall_fee")]

\* `${estimate.field}` in a template
FieldText(estimate, field) ==
    IF HasKey(estimate, field) THEN Text(BigToString(estimate[field])) ELSE "undefined"

\* the line written after a live estimation on starknet
StarknetEstimateLine(estimate) ==
    <<"[INFO] Starknet gas estimate - Consumed: ", FieldText(estimate, "gas_consumed"),
      ", Fee: ", FieldText(estimate, "overall_fee")>>

\* the line written after a live estimation on an account-based chain
EvmEstimateLine(gasEstimateBI, gasPrice, multiplier) ==
    LET result == EvmEstimateResult(gasEstimateBI, gasPrice, multiplier)
    IN  <<"[INFO] EVM gas estimate - Gas: ", Text(BigToString(gasEstimateBI)),
          ", Price: ", Text(result.gasPrice), ", Cost: ", Text(result.estimatedCost)>>

\* fee-estimation responses of the account: every field may be missing, and
\* the overall fee may include more than gas_consumed * gas_price
FeeResponses ==
    { [unit |-> "WEI", gas_consumed |-> <<1,5,0,0,0,0>>,
       gas_price |-> <<1,0,0,0,0,0,0,0,0,0>>,
       overall_fee |-> <<1,5,0,0,0,0,0,0,0,0,0,0,0,0,0>>],
      [unit |-> "WEI", gas_consumed |-> <<1,5,0,0,0,0>>,
       gas_price |-> <<1,0,0,0,0,0,0,0,0,0>>,
       overall_fee |-> <<1,5,0,0,0,0,0,0,0,0,0,0,1,9,2>>],
      [unit |-> "FRI", overall_fee |-> <<1,5,0,0,0,0,0,0,0,0,0,0,0,0,0>>],
      [unit |-> "FRI"] }

EstSnBuildApprove(i) ==
    /\ inv[i].pc = "est_sn_buildApprove"
    /\ LET r == inv[i]
           calls == Log(r, [fn |-> "buildApproveStarknet",
                            args |-> <<r.amountBI, r.params.tokenInAddress>>])
       IN  \/ inv' = [inv EXCEPT ![i] = Settle(Merge(r,
                        [calls |-> calls, pc |-> "est_sn_buildRoute",
                         approveCall |-> [contractAddress |-> r.params.tokenInAddress,
                                          entrypoint |-> "approve",
                                          calldata |-> <<"0xRouterStarknet", r.amountBI>>]]))]
           \/ \E t \in Throwables("estimation step failed") :
                inv' = [inv EXCEPT ![i] = Settle(EstimateFailed(r, calls, t))]
    /\ UNCHANGED <<env, registry, allowance>>

EstSnBuildRoute(i) ==
    /\ inv[i].pc = "est_sn_buildRoute"
    /\ LET r == inv[i]
           calls == Log(r, [fn |-> "buildRouteAndCalldata",
                            request |-> EstimateRouteRequest(r)])
       IN  \/ inv' = [inv EXCEPT ![i] = Settle(Merge(r,
                        [calls |-> calls, pc |-> "est_sn_estimateFee",
                         calldata |-> "0xcalldata",
                         router |-> RouterAddressIn(registry, "starknet")]))]
           \/ \E t \in Throwables("estimation step failed") :
                inv' = [inv EXCEPT ![i] = Settle(EstimateFailed(r, calls, t))]
    /\ UNCHANGED <<env, registry, allowance>>

\* mutant: the two calls are executed, not estimated
EstSnEstimateFee_Executes(i) ==
    /\ inv[i].pc = "est_sn_estimateFee"
    /\ LET r == inv[i]
           calls == Log(r, [fn |-> "execute",
                            calls |-> <<r.approveCall, SwapCall(r.router, r.calldata)>>])
       IN  \/ \E estimate \in FeeResponses :
                inv' = [inv EXCEPT ![i] = Settle(Merge(r,
                        [calls |-> calls, pc |-> "done",
                         log |-> Append(r.log, StarknetEstimateLine(estimate)),
                         outcome |-> Returned(StarknetEstimateResult(estimate))]))]
           \/ \E t \in Throwables("estimation step failed") :
                inv' = [inv EXCEPT ![i] = Settle(EstimateFailed(r, calls, t))]
    /\ UNCHANGED <<env, registry, allowance>>

\* account.estimateFee([approveCall, swapCall]), then the result
EstSnEstimateFee(i) ==
    /\ inv[i].pc = "est_sn_estimateFee"
    /\ LET r == inv[i]
           calls == Log(r, [fn |-> "estimateFee",
                            calls |-> <<r.approveCall, SwapCall(r.router, r.calldata)>>])
       IN  \/ \E estimate \in FeeResponses :
                inv' = [inv EXCEPT ![i] = Settle(Merge(r,
                        [calls |-> calls, pc |-> "done",
                         log |-> Append(r.log, StarknetEstimateLine(estimate)),
                         outcome |-> Returned(StarknetEstimateResult(estimate))]))]
           \/ \E t \in Throwables("estimation step failed") :
                inv' = [inv EXCEPT ![i] = Settle(EstimateFailed(r, calls, t))]
    /\ UNCHANGED <<env, registry, allowance>>

EstEvmBuildRoute(i) ==
    /\ inv[i].pc = "est_evm_buildRoute"
    /\ LET r == inv[i]
           calls == Log(r, [fn |-> "buildRouteAndCalldata",
                            request |-> EstimateRouteRequest(r)])
       IN  \/ inv' = [inv EXCEPT ![i] = Settle(Merge(r,
                        [calls |-> calls, pc |-> "est_evm_estimateGas",
                         calldata |-> "0xcalldata"]))]
           \/ \E t \in Throwables("estimation step failed") :
                inv' = [inv EXCEPT ![i] = Settle(EstimateFailed(r, calls, t))]
    /\ UNCHANGED <<env, registry, allowance>>

\* publicClient.estimateGas({account, to: routerAddress, data})
EstEvmEstimateGas(i) ==
    /\ inv[i].pc = "est_evm_estimateGas"
    /\ LET r == inv[i]
           calls == Log(r, [fn |-> "estimateGas", to |-> r.router, data |-> r.calldata])
       IN  \/ \E gas \in GasAmounts :
                inv' = [inv EXCEPT ![i] = Settle(Merge(r,
                        [calls |-> calls, pc |-> "est_evm_getGasPrice",
                         gasEstimate |-> gas]))]
           \/ \E t \in Throwables("estimation step failed") :
                inv' = [inv EXCEPT ![i] = Settle(EstimateFailed(r, calls, t))]
    /\ UNCHANGED <<env, registry, allowance>>

\* publicClient.getGasPrice, getServerConfig(), then the result
EstEvmGetGasPrice(i) ==
    /\ inv[i].pc = "est_evm_getGasPrice"
    /\ LET r == inv[i]
           calls == Log(r, [fn |-> "getGasPrice"])
           serverConfig == getServerConfig(env)
       IN  \/ \E gasPrice \in GasPrices :
                inv' = [inv EXCEPT ![i] = Settle(
                    IF ~serverConfig.ok
                    THEN EstimateFailed(r, calls, serverConfig.error)
                    ELSE Merge(r,
                           [calls |-> calls, pc |-> "done",
                            networkGasPrice |-> gasPrice,
                            log |-> Append(r.log, EvmEstimateLine(
                                r.gasEstimate, gasPrice,
                                serverConfig.gasPriceMultiplier)),
                            outcome |-> Returned(EvmEstimateResult(
                                r.gasEstimate, gasPrice,
                                serverConfig.gasPriceMultiplier))]))]
           \/ \E t \in Throwables("estimation step failed") :
                inv' = [inv EXCEPT ![i] = Settle(EstimateFailed(r, calls, t))]
    /\ UNCHANGED <<env, registry, allowance>>

-----------------------------------------------------------------------------
(* Chain configuration from the environment *)

ToUpperCase(chainName) ==
    CASE chainName = "base" -> "BASE"
      [] chainName = "scroll" -> "SCROLL"
      [] chainName = "starknet" -> "STARKNET"

EnvVars ==
    { "BASE_RPC_URL", "BASE_PRIVATE_KEY", "SCROLL_RPC_URL", "SCROLL_PRIVATE_KEY",
      "STARKNET_RPC_URL", "STARKNET_PRIVATE_KEY", "STARKNET_PUBLIC_KEY",
      "DEFAULT_SLIPPAGE", "GAS_PRICE_MULTIPLIER", "TRANSACTION_TIMEOUT",
      "FIBROUS_API_KEY" }

PLACEHOLDER_VALUES == {"0x...", "YOUR_PRIVATE_KEY", "YOUR_PUBLIC_KEY", ""}

MIN_PRIVATE_KEY_LENGTH == 32

\* a key with characters that are not hexadecimal
KeyNotHex == "0xZZ34567890123456789012345678901234567890123456789012345678901234"

\* a key that differs from KeyGood in two characters of its middle, which are
\* not hexadecimal
KeyNotHexInside == "0x12ZZ567890123456789012345678901234567890123456789012345678901234"

\* /^0x[a-fA-F0-9]+$/.test(key), for the keys of the model
IsHexLiteral(key) == key \in {KeyGood, KeyWrongLength, "0xabc"}

StartsWith0x(key) ==
    key \in {KeyGood, KeyWrongLength, KeyNotHex, KeyNotHexInside, "0xabc", "0x..."}

\* the characters of the keys of the model
Chars(key) ==
    LET digits(n) == Str([k \in 1..n |-> k % 10])
    IN  CASE key = KeyGood         -> <<"0", "x">> \o digits(64)
          [] key = KeyWrongLength  -> <<"0", "x">> \o digits(38)
          [] key = KeyNotHex       -> <<"0", "x", "Z", "Z">> \o SubSeq(digits(64), 3, 64)
          [] key = KeyNotHexInside -> <<"0", "x", "1", "2", "Z", "Z">>
                                          \o SubSeq(digits(64), 5, 64)
          [] key = "0xabc"         -> <<"0", "x", "a", "b", "c">>
          [] key = "0x..."         -> <<"0", "x", ".", ".", ".">>
          [] key = "YOUR_PRIVATE_KEY" ->
                 <<"Y", "O", "U", "R", "_", "P", "R", "I", "V", "A", "T", "E",
                   "_", "K", "E", "Y">>
          [] key = ""              -> <<>>

\* maskPrivateKey(privateKey)
maskPrivateKey(privateKey) ==
    LET n == Len(privateKey)
    IN  IF n <= 8 THEN "****"
        ELSE Text(SubSeq(Chars(privateKey), 1, 4)) \o "****"
                 \o Text(SubSeq(Chars(privateKey), n - 3, n))

\* new URL(rpcUrl).protocol, "" when the text is not a URL
UrlProtocol(rpcUrl) ==
    CASE rpcUrl = "https://rpc.example" -> "https:"
      [] rpcUrl = "ftp://rpc.example"   -> "ftp:"
      [] OTHER                          -> ""

\* getEnvVar(key) with required = true
getEnvVar(e, key) ==
    IF e[key] = ""
    THEN [ok |-> FALSE,
          error |-> Error("Environment variable " \o key \o " is required but not set")]
    ELSE [ok |-> TRUE, value |-> e[key]]

\* buildChainConfig(chainName)
buildChainConfig(e, chainName) ==
    LET rpcUrl     == getEnvVar(e, ToUpperCase(chainName) \o "_RPC_URL")
        privateKey == getEnvVar(e, ToUpperCase(chainName) \o "_PRIVATE_KEY")
        publicKey  == getEnvVar(e, ToUpperCase(chainName) \o "_PUBLIC_KEY")
    IN  IF ~rpcUrl.ok THEN rpcUrl
        ELSE IF ~privateKey.ok THEN privateKey
        ELSE IF chainName = "starknet"
        THEN IF ~publicKey.ok THEN publicKey
             ELSE [ok |-> TRUE,
                   value |-> [rpcUrl |-> rpcUrl.value, privateKey |-> privateKey.value,
                              publicKey |-> publicKey.value]]
        ELSE [ok |-> TRUE,
              value |-> [rpcUrl |-> rpcUrl.value, privateKey |-> privateKey.value]]

\* getWalletConfig(): the three chains, in the order base, scroll, starknet
getWalletConfig(e) ==
    LET b  == buildChainConfig(e, "base")
        sc == buildChainConfig(e, "scroll")
        st == buildChainConfig(e, "starknet")
    IN  IF ~b.ok THEN b
        ELSE IF ~sc.ok THEN sc
        ELSE IF ~st.ok THEN st
        ELSE [ok |-> TRUE, value |-> [base |-> b.value, scroll |-> sc.value,
                                      starknet |-> st.value]]

\* getChainConfig(chainName)
getChainConfig(e, chainName) ==
    LET walletConfig == getWalletConfig(e)
    IN  IF walletConfig.ok
        THEN [ok |-> TRUE, value |-> walletConfig.value[chainName]]
        ELSE walletConfig

validateRpcUrl(rpcUrl, chainName) ==
    IF rpcUrl = "" THEN <<"RPC URL is required for " \o chainName>>
    ELSE IF UrlProtocol(rpcUrl) = ""
    THEN <<"RPC URL for " \o chainName \o " is not a valid URL">>
    ELSE IF UrlProtocol(rpcUrl) \notin {"http:", "https:"}
    THEN <<"RPC URL for " \o chainName \o " must use HTTP or HTTPS protocol">>
    ELSE <<>>

validatePrivateKey(privateKey, chainName) ==
    IF privateKey = "" THEN <<"Private key is required for " \o chainName>>
    ELSE IF privateKey \in PLACEHOLDER_VALUES
    THEN <<"Private key for " \o chainName \o " appears to be placeholder value">>
    ELSE (IF Len(privateKey) < MIN_PRIVATE_KEY_LENGTH
          THEN <<"Private key for " \o chainName
                   \o " is too short (minimum 32 characters)">> ELSE <<>>)
         \o
         (IF StartsWith0x(privateKey) /\ ~IsHexLiteral(privateKey)
          THEN <<"Private key for " \o chainName \o " contains invalid hex characters">>
          ELSE <<>>)

\* the errors validateChainConfig collects, given what getChainConfig gave
ChainConfigErrors(chainConfig, chainName) ==
    IF ~chainConfig.ok THEN <<chainConfig.error.message>>
    ELSE validateRpcUrl(chainConfig.value.rpcUrl, chainName)
         \o validatePrivateKey(chainConfig.value.privateKey, chainName)
         \o (IF chainName # "starknet" THEN <<>>
             ELSE IF ~HasPublicKey(chainConfig.value)
             THEN <<"Missing public key for Starknet">>
             ELSE IF chainConfig.value.publicKey \in PLACEHOLDER_VALUES
             THEN <<"Public key for Starknet appears to be placeholder value">>
             ELSE <<>>)

\* the result of validateChainConfig for a list of errors
ValidationResult(errors) == [isValid |-> Len(errors) = 0, errors |-> errors]

\* validateChainConfig(chainName)
validateChainConfig(e, chainName) ==
    ValidationResult(ChainConfigErrors(getChainConfig(e, chainName), chainName))

RECURSIVE Join(_, _)
\* errors.join(sep)
Join(texts, sep) ==
    IF texts = <<>> THEN ""
    ELSE IF Len(texts) = 1 THEN texts[1]
    ELSE texts[1] \o sep \o Join(Tail(texts), sep)

\* getValidChains(): the chains whose configuration validates, in the order
\* base, scroll, starknet
getValidChains(e) ==
    LET pushed(chain) == IF validateChainConfig(e, chain).isValid THEN <<chain>> ELSE <<>>
    IN  pushed("base") \o pushed("scroll") \o pushed("starknet")

\* the lines of one chain, given what validateChainConfig returned for it
StatusLines(chain, validation) ==
    IF validation.isValid
    THEN << <<"    [+] ", chain, ": Valid">> >>
    ELSE << <<"    [-] ", chain, ": Invalid">> >>
             \o [k \in 1..Len(validation.errors) |-> <<"      - ", validation.errors[k]>>]

\* mutant: the status of an invalid chain shows the key that was rejected
ChainStatusLines_ShowsKey(e, chain) ==
    IF validateChainConfig(e, chain).isValid
    THEN << <<"    [+] ", chain, ": Valid">> >>
    ELSE << <<"    [-] ", chain, ": Invalid ", e[ToUpperCase(chain) \o "_PRIVATE_KEY"]>> >>

\* the lines logConfigStatus writes for one chain
ChainStatusLines(e, chain) == StatusLines(chain, validateChainConfig(e, chain))

\* the lines of logConfigStatus, given the server configuration, the lines of
\* the three chains and the valid chains
ConfigStatusLines(e, serverConfig, base, scroll, starknet, validChains) ==
    << <<"[INFO] Configuration Status:">>,
       <<"  - Default Slippage: ", NumberToString(serverConfig.defaultSlippage), "%">>,
       <<"  - Gas Price Multiplier: ", NumberToString(serverConfig.gasPriceMultiplier), "x">>,
       <<"  - Transaction Timeout: ", NumberToString(serverConfig.transactionTimeout), "s">>,
       <<"  - API Key: ", IF e["FIBROUS_API_KEY"] # "" THEN "Set" ELSE "Not set">>,
       <<"[INFO] Chain Configurations:">> >>
    \o base \o scroll \o starknet
    \o (IF Len(validChains) > 0
        THEN << <<"[INFO] Available for swaps: ", Join(validChains, ", ")>> >>
        ELSE << <<"[WARN] No chains available for swaps (all configurations invalid)">> >>)

\* logConfigStatus(): the lines it writes, or the error getServerConfig throws
\* before the first line
logConfigStatus(e) ==
    IF ~getServerConfig(e).ok THEN getServerConfig(e)
    ELSE [ok |-> TRUE,
          lines |-> ConfigStatusLines(e, getServerConfig(e),
                                      ChainStatusLines(e, "base"),
                                      ChainStatusLines(e, "scroll"),
                                      ChainStatusLines(e, "starknet"),
                                      getValidChains(e))]

\* validateChain(chainName): throws for a chain outside SUPPORTED_CHAINS
validateChain(chainName) ==
    IF \E k \in 1..Len(SUPPORTED_CHAINS) : SUPPORTED_CHAINS[k] = chainName
    THEN [ok |-> TRUE]
    ELSE [ok |-> FALSE, error |-> Error("Unsupported chain: " \o chainName)]

-----------------------------------------------------------------------------
(* executeSwapHandler: from its entry to the first suspension *)

\* r with key k set to v, k added when missing
With(r, k, v) == [x \in DOMAIN r \cup {k} |-> IF x = k THEN v ELSE r[x]]

executeSwapHandlerEntry(r, e, reg) ==
    LET args == r.params
        chainName == args.chainName
        chainOk == validateChain(chainName)
    IN  IF ~chainOk.ok
        THEN [pc |-> "done", entered |-> <<"validateChain">>,
              response |-> createErrorResponse(chainOk.error, "execute-swap", chainName)]
        ELSE
        LET chainValidation == validateChainConfig(e, chainName)
        IN  IF ~chainValidation.isValid
            THEN [pc |-> "done", entered |-> <<"validateChain", "validateChainConfig">>,
                  response |-> createErrorResponse(
                      Error("Wallet configuration invalid for " \o chainName \o ": "
                            \o Join(chainValidation.errors, ", ")),
                      "execute-swap", chainName)]
            ELSE
            LET swapParams == IF HasKey(args, "slippage") THEN args
                              ELSE With(args, "slippage", DEFAULTS_SLIPPAGE)
                paramValidation == validateSwapParams(swapParams)
            IN  IF ~paramValidation.isValid
                THEN [pc |-> "done", params |-> swapParams,
                      entered |-> <<"validateChain", "validateChainConfig",
                                    "validateSwapParams">>,
                      response |-> createErrorResponse(
                          Error("Invalid swap parameters: "
                                \o Join(paramValidation.errors, ", ")),
                          "execute-swap", chainName)]
                ELSE
                LET r1 == Merge(r, [params |-> swapParams,
                                    cfg |-> getChainConfig(e, chainName).value,
                                    entered |-> <<"validateChain", "validateChainConfig",
                                                  "validateSwapParams", "getChainConfig",
                                                  "executeSwap">>])
                IN  Merge(r1, executeSwapEntry(r1, reg))

-----------------------------------------------------------------------------
(* Inputs *)

\* r extended by the optional key k, once for every value in vals, or not at all
Optional(rs, k, vals) == rs \cup {With(r, k, v) : r \in rs, v \in vals}

\* amounts handed to executeSwap and estimateSwapGas: integers above, at and
\* below the allowances of the model, a decimal fraction and the empty string
SwapAmounts == { Str(<<7>>), Str(<<5>>), Str(<<3>>), <<"1", ".", "5">>, <<>> }

\* SwapParams values
SwapParamsSet ==
    Optional(Optional(
        [amount : SwapAmounts,
         tokenInAddress : {NATIVE_SENTINEL, "0xTokenA"},
         tokenOutAddress : {"0xTokenB"},
         chainName : Chains],
        "slippage", {500}),
        "receiverAddress", {"0xReceiver"})

\* ChainConfig values handed to executeSwap and estimateSwapGas
ChainConfigs(chainName) ==
    IF chainName = "starknet"
    THEN { [rpcUrl |-> "https://rpc.example", privateKey |-> KeyGood],
           [rpcUrl |-> "https://rpc.example", privateKey |-> KeyGood,
            publicKey |-> "0xAccount"] }
    ELSE { [rpcUrl |-> "https://rpc.example", privateKey |-> key] :
             key \in {KeyGood, KeyWrongLength} }

\* a complete environment
EnvGood ==
    [v \in EnvVars |->
        CASE v \in {"BASE_RPC_URL", "SCROLL_RPC_URL", "STARKNET_RPC_URL"}
                -> "https://rpc.example"
          [] v \in {"BASE_PRIVATE_KEY", "SCROLL_PRIVATE_KEY", "STARKNET_PRIVATE_KEY"}
                -> KeyGood
          [] v = "STARKNET_PUBLIC_KEY" -> "0xAccount"
          [] OTHER -> ""]

\* the environments of the direct calls: the gas price multiplier unset,
\* set, or not a number, or the default slippage set to 0.5
EngineEnvs ==
    { [EnvGood EXCEPT !["GAS_PRICE_MULTIPLIER"] = m] : m \in {"", "1.5", "abc"} }
        \cup { [EnvGood EXCEPT !["DEFAULT_SLIPPAGE"] = "0.5"] }

\* values an environment variable may wrongly hold
BadValues(v) ==
    CASE v \in {"BASE_RPC_URL", "SCROLL_RPC_URL", "STARKNET_RPC_URL"}
            -> {"", "ftp://rpc.example", "not a url"}
      [] v \in {"BASE_PRIVATE_KEY", "SCROLL_PRIVATE_KEY", "STARKNET_PRIVATE_KEY"}
            -> {"", "YOUR_PRIVATE_KEY", "0xabc", KeyNotHex, KeyNotHexInside, KeyWrongLength}
      [] v = "STARKNET_PUBLIC_KEY" -> {"", "YOUR_PUBLIC_KEY"}
      [] OTHER -> {}

\* the environments of the handler: complete, or one variable wrong
HandlerEnvs ==
    {EnvGood} \cup UNION { { [EnvGood EXCEPT ![v] = x] : x \in BadValues(v) } : v \in EnvVars }

\* environments that differ in the private key of base only: a valid key, two
\* keys with characters that are not hexadecimal, and a short key
DiagnosticEnvs ==
    { [EnvGood EXCEPT !["BASE_PRIVATE_KEY"] = key] :
        key \in {KeyGood, KeyNotHexInside, KeyNotHex, "0xabc"} }

Registries == { RegistryFull, RegistryNoRouter, <<>> }

\* on-chain allowances at the start: none, or 5 units
Allowances == { <<0>>, <<5>> }

\* tool arguments of execute-swap
HandlerArgsSet ==
    Optional(
        [amount : { Str(<<7>>), Str(<<0>>), Str(<<0, 0>>), <<"1", ".", "5">> },
         tokenInAddress : {NATIVE_SENTINEL, "0xTokenA"},
         tokenOutAddress : {"0xTokenA", "0xTokenB"},
         chainName : Chains \cup {"ethereum"}],
        "slippage", {51000})

\* characters of the amounts enumerated for validateSwapParams
AmountAlphabet == {"0", "1", ".", "-", "+", " ", "x", "e"}

\* an amount one character longer than MAX_AMOUNT_LENGTH
LongAmount == [k \in 1..(MAX_AMOUNT_LENGTH + 1) |-> "1"]

AmountStrings ==
    UNION { [1..n -> AmountAlphabet] : n \in 0..MaxAmountLen }
        \cup {LongAmount, InvalidLiteral}

ValidateParamsSet ==
    Optional(
        [amount : AmountStrings,
         tokenInAddress : {"", "0xTokenA"},
         tokenOutAddress : {"0xTokenA", "0xTokenB"},
         chainName : {"base"}],
        "slippage", {5, 51000})

\* longest amount string enumerated for the amount utilities, and the
\* largest number of decimals
MaxCodecLen == 3

MaxDecimals == 4

CodecAlphabet == {"0", "1", "5", "9", "."}

\* "1.23456789", to be parsed with 4 decimals, and "1234567890123456789", to
\* be formatted with 18 decimals
FractionExample == <<"1", ".", "2", "3", "4", "5", "6", "7", "8", "9">>

WeiExample == Str(<<1,2,3,4,5,6,7,8,9,0,1,2,3,4,5,6,7,8,9>>)

CodecAmounts ==
    UNION { [1..n -> CodecAlphabet] : n \in 0..MaxCodecLen }
        \cup { <<"-", "1">>, <<" ", "7">>, <<"+", "7">>, <<"0", "x", "1", "0">>,
               <<"1", "e", "5">>, <<" ">>, InvalidLiteral }

ConvertArgs ==
    [amount : CodecAmounts, decimals : 0..MaxDecimals, operation : {"format", "parse"}]
        \cup { [amount |-> FractionExample, decimals |-> 4, operation |-> "parse"],
               [amount |-> WeiExample, decimals |-> 18, operation |-> "format"] }

\* the value amount / 10^decimals lies exactly half way between two decimals
\* of maxDecimals >= 1 digits. Whether the double that parseFloat returns for
\* it is below or above the half depends on its binary expansion, which this
\* model does not compute: such arguments are left out of PrettyArgs.
InexactTie(a) ==
    LET b == JsBigInt(a.amount)
    IN  /\ b.ok
        /\ a.maxDecimals >= 1
        /\ LET fraction == AfterDot(formatUnits(FALSE, b.mag, a.decimals))
           IN  /\ Len(fraction) = a.maxDecimals + 1
               /\ fraction[Len(fraction)] = "5"

PrettyArgs ==
    { a \in [amount : CodecAmounts, decimals : 0..MaxDecimals,
             maxDecimals : 0..DEFAULT_MAX_DECIMALS] : ~InexactTie(a) }
        \cup { [amount |-> WeiExample, decimals |-> 18, maxDecimals |-> 4] }

-----------------------------------------------------------------------------
(* Calls *)

\* a caller invokes executeSwap(params, chainConfig, fibrousRouter)
ExecuteSwapCall(i) ==
    /\ inv[i].pc = "idle"
    /\ \E params \in SwapParamsSet :
         \E cfg \in ChainConfigs(params.chainName) :
           LET r == Merge(Idle, [op |-> "executeSwap", params |-> params, cfg |-> cfg,
                                 entered |-> <<"executeSwap">>])
           IN  inv' = [inv EXCEPT ![i] = Settle(Merge(r, executeSwapEntry(r, registry)))]
    /\ UNCHANGED <<env, registry, allowance>>

\* a caller invokes estimateSwapGas(params, chainConfig, fibrousRouter)
EstimateSwapGasCall(i) ==
    /\ inv[i].pc = "idle"
    /\ \E params \in SwapParamsSet :
         \E cfg \in ChainConfigs(params.chainName) :
           LET r == Merge(Idle, [op |-> "estimateSwapGas", params |-> params, cfg |-> cfg,
                                 entered |-> <<"estimateSwapGas">>])
           IN  inv' = [inv EXCEPT ![i] = Settle(Merge(r, estimateSwapGasEntry(r, registry)))]
    /\ UNCHANGED <<env, registry, allowance>>

\* the server invokes executeSwapHandler(args, fibrousRouter)
ExecuteSwapHandlerCall(i) ==
    /\ inv[i].pc = "idle"
    /\ \E args \in HandlerArgsSet :
           LET r == Merge(Idle, [op |-> "executeSwapHandler", params |-> args])
           IN  inv' = [inv EXCEPT ![i] =
                          Settle(Merge(r, executeSwapHandlerEntry(r, env, registry)))]
    /\ UNCHANGED <<env, registry, allowance>>

\* a caller invokes validateSwapParams(params)
ValidateSwapParamsCall(i) ==
    /\ inv[i].pc = "idle"
    /\ \E params \in ValidateParamsSet :
           inv' = [inv EXCEPT ![i] =
                      Merge(Idle, [op |-> "validateSwapParams", params |-> params,
                                   pc |-> "done",
                                   entered |-> <<"validateSwapParams">>,
                                   outcome |-> Returned(validateSwapParams(params))])]
    /\ UNCHANGED <<env, registry, allowance>>

\* the outcome of a utility that returns a string or throws
Outcome(res) == IF res.ok THEN Returned(res.value) ELSE Thrown(res.error)

\* a caller invokes convertAmount(amount, decimals, operation)
ConvertAmountCall(i) ==
    /\ inv[i].pc = "idle"
    /\ \E a \in ConvertArgs :
           inv' = [inv EXCEPT ![i] =
                      Merge(Idle, [op |-> "convertAmount", params |-> a, pc |-> "done",
                                   entered |-> <<"convertAmount">>,
                                   outcome |-> Outcome(convertAmount(
                                       a.amount, a.decimals, a.operation))])]
    /\ UNCHANGED <<env, registry, allowance>>

\* the caller hands the string convertAmount returned to convertAmount again,
\* with the same decimals
ConvertAmountBack(i) ==
    /\ inv[i].pc = "done"
    /\ inv[i].op = "convertAmount"
    /\ inv[i].outcome.kind = "returned"
    /\ inv[i].previous = <<>>
    /\ \E operation \in {"format", "parse"} :
           LET a == [amount |-> inv[i].outcome.value,
                     decimals |-> inv[i].params.decimals, operation |-> operation]
           IN  inv' = [inv EXCEPT ![i] =
                          Merge(inv[i],
                                [params |-> a,
                                 previous |-> <<[params |-> inv[i].params,
                                                 outcome |-> inv[i].outcome]>>,
                                 entered |-> inv[i].entered \o <<"convertAmount">>,
                                 outcome |-> Outcome(convertAmount(
                                     a.amount, a.decimals, a.operation))])]
    /\ UNCHANGED <<env, registry, allowance>>

\* a caller invokes formatAmountPretty(amount, decimals, maxDecimals)
FormatAmountPrettyCall(i) ==
    /\ inv[i].pc = "idle"
    /\ \E a \in PrettyArgs :
           inv' = [inv EXCEPT ![i] =
                      Merge(Idle, [op |-> "formatAmountPretty", params |-> a,
                                   pc |-> "done",
                                   entered |-> <<"formatAmountPretty">>,
                                   outcome |-> Outcome(formatAmountPretty(
                                       a.amount, a.decimals, a.maxDecimals))])]
    /\ UNCHANGED <<env, registry, allowance>>

\* a caller invokes getChainConfig(chainName)
GetChainConfigCall(i) ==
    /\ inv[i].pc = "idle"
    /\ \E chainName \in Chains :
           inv' = [inv EXCEPT ![i] =
                      Merge(Idle, [op |-> "getChainConfig",
                                   params |-> [chainName |-> chainName], pc |-> "done",
                                   entered |-> <<"getChainConfig">>,
                                   outcome |-> Outcome(getChainConfig(env, chainName))])]
    /\ UNCHANGED <<env, registry, allowance>>

\* a caller invokes validateChainConfig(chainName)
ValidateChainConfigCall(i) ==
    /\ inv[i].pc = "idle"
    /\ \E chainName \in Chains :
           inv' = [inv EXCEPT ![i] =
                      Merge(Idle, [op |-> "validateChainConfig",
                                   params |-> [chainName |-> chainName], pc |-> "done",
                                   entered |-> <<"validateChainConfig">>,
                                   outcome |-> Returned(validateChainConfig(env, chainName))])]
    /\ UNCHANGED <<env, registry, allowance>>

\* a caller invokes logConfigStatus()
LogConfigStatusCall(i) ==
    /\ inv[i].pc = "idle"
    /\ \E res \in {logConfigStatus(env)} :
           inv' = [inv EXCEPT ![i] =
                      Merge(Idle, [op |-> "logConfigStatus", pc |-> "done",
                                   entered |-> <<"logConfigStatus">>,
                                   log |-> IF res.ok THEN res.lines ELSE <<>>,
                                   outcome |-> IF res.ok THEN Returned("undefined")
                                               ELSE Thrown(res.error)])]
    /\ UNCHANGED <<env, registry, allowance>>

-----------------------------------------------------------------------------
(* Specifications *)

\* the steps of executeSwap
ExecuteSwapStep(i) ==
    \/ ApproveReadAllowance(i)
    \/ ApproveWrite(i)
    \/ ApproveWait(i)
    \/ EvmBuildRoute(i)
    \/ EvmGetGasPrice(i)
    \/ EvmSendTransaction(i)
    \/ EvmWaitReceipt(i)
    \/ SnBuildApprove(i)
    \/ SnBuildRoute(i)
    \/ SnExecute(i)

\* the steps of estimateSwapGas
EstimateSwapGasStep(i) ==
    \/ EstSnBuildApprove(i)
    \/ EstSnBuildRoute(i)
    \/ EstSnEstimateFee(i)
    \/ EstEvmBuildRoute(i)
    \/ EstEvmEstimateGas(i)
    \/ EstEvmGetGasPrice(i)

\* One direct invocation of executeSwap or estimateSwapGas
Init ==
    /\ env \in EngineEnvs
    /\ registry \in Registries
    /\ \E a \in Allowances : allowance = [c \in EvmChains |-> a]
    /\ inv = [i \in {1} |-> Idle]

Next ==
    \E i \in DOMAIN inv :
        \/ ExecuteSwapCall(i)
        \/ EstimateSwapGasCall(i)
        \/ ExecuteSwapStep(i)
        \/ EstimateSwapGasStep(i)

Spec == Init /\ [][Next]_vars

\* Two invocations of executeSwap that use the same wallet, router and input
\* token on base; they differ at most in the amount
SharedWalletParams ==
    [amount : {Str(<<7>>), Str(<<3>>)},
     tokenInAddress : {"0xTokenA"},
     tokenOutAddress : {"0xTokenB"},
     chainName : {"base"}]

\* executeSwap called while another invocation may be in flight; `after` keeps
\* the invocations that had ended when this one began
SharedWalletSwapCall(i) ==
    /\ inv[i].pc = "idle"
    /\ \E params \in SharedWalletParams :
         LET r == Merge(Idle, [op |-> "executeSwap", params |-> params,
                               cfg |-> [rpcUrl |-> "https://rpc.example",
                                        privateKey |-> KeyGood],
                               entered |-> <<"executeSwap">>,
                               after |-> {j \in DOMAIN inv : inv[j].pc = "done"}])
         IN  inv' = [inv EXCEPT ![i] = Settle(Merge(r, executeSwapEntry(r, registry)))]
    /\ UNCHANGED <<env, registry, allowance>>

\* the suspension points of executeEvmSwap
ExecuteEvmSwapStep(i) ==
    \/ ApproveReadAllowance(i)
    \/ ApproveWrite(i)
    \/ ApproveWait(i)
    \/ EvmBuildRoute(i)
    \/ EvmGetGasPrice(i)
    \/ EvmSendTransaction(i)
    \/ EvmWaitReceipt(i)

InitSharedWallet ==
    /\ env = EnvGood
    /\ registry = RegistryFull
    /\ \E a \in Allowances : allowance = [c \in EvmChains |-> a]
    /\ inv = [i \in {1, 2} |-> Idle]

NextSharedWallet ==
    \E i \in DOMAIN inv :
        \/ SharedWalletSwapCall(i)
        \/ ExecuteEvmSwapStep(i)

SpecSharedWallet == InitSharedWallet /\ [][NextSharedWallet]_vars

\* Process start. Loading server.ts runs the initialization function up to
\* `await fibrousRouter.refreshSupportedChains()` and goes on without waiting
\* for it; the startup script then calls startServer(), which runs up to
\* `await server.connect(transport)`. Invocation 1 is the initialization
\* function, 2 is startServer, 3 is a tool request.
InitializationId == 1

StartServerId == 2

\* process.exit(1) was called
Exited == \E i \in DOMAIN inv : inv[i].outcome.kind = "exited"

\* tool arguments of the requests that arrive during startup
StartupArgs ==
    [amount : {Str(<<7>>)},
     tokenInAddress : {"0xTokenA"},
     tokenOutAddress : {"0xTokenB"},
     chainName : {"base", "starknet"}]

\* refreshSupportedChains() resolved: the registry is populated, then the
\* info line and logConfigStatus(); what logConfigStatus throws is caught
\* by the same catch block
RefreshSupportedChainsResolved ==
    /\ ~Exited
    /\ inv[InitializationId].pc = "refreshing"
    /\ registry' = RegistryFull
    /\ \E res \in {logConfigStatus(env)} :
         LET r == inv[InitializationId]
             info == <<"[INFO] Fibrous Router initialized with V2 API">>
         IN  inv' = [inv EXCEPT ![InitializationId] =
                 IF res.ok
                 THEN Merge(r, [pc |-> "done", log |-> <<info>> \o res.lines,
                                outcome |-> Returned("undefined")])
                 ELSE Merge(r, [pc |-> "done", caught |-> <<res.error>>,
                                failedAt |-> "logConfigStatus",
                                log |-> <<info, <<"Failed to initialize Fibrous Router:",
                                                  "Error: " \o res.error.message>>>>,
                                outcome |-> [kind |-> "exited", code |-> 1]])]
    /\ UNCHANGED <<env, allowance>>

\* refreshSupportedChains() rejected: the catch block ends the process
RefreshSupportedChainsFailed ==
    /\ ~Exited
    /\ inv[InitializationId].pc = "refreshing"
    /\ \E t \in Throwables("fetch failed") :
         inv' = [inv EXCEPT ![InitializationId] =
                    Merge(@, [pc |-> "done", caught |-> <<t>>,
                              failedAt |-> "refreshSupportedChains",
                              log |-> <<<<"Failed to initialize Fibrous Router:",
                                          IF t.isError THEN "Error: " \o t.message
                                          ELSE "[object]">>>>,
                              outcome |-> [kind |-> "exited", code |-> 1]])]
    /\ UNCHANGED <<env, registry, allowance>>

\* server.connect(transport) resolved: requests are dispatched from now on
ServerConnectResolved ==
    /\ ~Exited
    /\ inv[StartServerId].pc = "connecting"
    /\ inv' = [inv EXCEPT ![StartServerId] =
                  Merge(@, [pc |-> "done", outcome |-> Returned("undefined")])]
    /\ UNCHANGED <<env, registry, allowance>>

\* server.connect(transport) rejected: the catch block of startServer
ServerConnectFailed ==
    /\ ~Exited
    /\ inv[StartServerId].pc = "connecting"
    /\ \E t \in Throwables("connect failed") :
         inv' = [inv EXCEPT ![StartServerId] =
                    Merge(@, [pc |-> "done", caught |-> <<t>>, failedAt |-> "connect",
                              log |-> <<<<"Failed to start server:",
                                          IF t.isError THEN "Error: " \o t.message
                                          ELSE "[object]">>>>,
                              outcome |-> [kind |-> "exited", code |-> 1]])]
    /\ UNCHANGED <<env, registry, allowance>>

\* wrappedHandler of the execute-swap tool: handler(args, fibrousRouter) with
\* the router object as it is when the request arrives; `after` keeps the
\* startup functions that had ended by then
WrappedHandlerCall(i) ==
    /\ ~Exited
    /\ i \notin {InitializationId, StartServerId}
    /\ inv[StartServerId].outcome.kind = "returned"
    /\ inv[i].pc = "idle"
    /\ \E args \in StartupArgs :
         LET r == Merge(Idle, [op |-> "executeSwapHandler", params |-> args,
                               after |-> {j \in DOMAIN inv : inv[j].pc = "done"}])
         IN  inv' = [inv EXCEPT ![i] =
                        Settle(Merge(r, executeSwapHandlerEntry(r, env, registry)))]
    /\ UNCHANGED <<env, registry, allowance>>

\* a request in flight goes on while the process lives
WrappedHandlerStep(i) ==
    /\ ~Exited
    /\ ExecuteSwapStep(i)

InitStartup ==
    /\ env \in { [EnvGood EXCEPT !["GAS_PRICE_MULTIPLIER"] = m] : m \in {"", "abc"} }
    /\ registry = <<>>
    /\ \E a \in Allowances : allowance = [c \in EvmChains |-> a]
    /\ inv = [i \in {1, 2, 3} |->
                CASE i = InitializationId ->
                         Merge(Idle, [op |-> "initialize", pc |-> "refreshing"])
                  [] i = StartServerId ->
                         Merge(Idle, [op |-> "startServer", pc |-> "connecting"])
                  [] OTHER -> Idle]

NextStartup ==
    \/ RefreshSupportedChainsResolved
    \/ RefreshSupportedChainsFailed
    \/ ServerConnectResolved
    \/ ServerConnectFailed
    \/ \E i \in DOMAIN inv :
          \/ WrappedHandlerCall(i)
          \/ WrappedHandlerStep(i)

SpecStartup == InitStartup /\ [][NextStartup]_vars

\* One invocation of the execute-swap tool handler
InitHandler ==
    /\ env \in HandlerEnvs
    /\ registry \in {RegistryFull, RegistryNoRouter}
    /\ \E a \in Allowances : allowance = [c \in EvmChains |-> a]
    /\ inv = [i \in {1} |-> Idle]

NextHandler ==
    \E i \in DOMAIN inv :
        \/ ExecuteSwapHandlerCall(i)
        \/ ExecuteSwapStep(i)

SpecHandler == InitHandler /\ [][NextHandler]_vars

\* validateSwapParams applied to one parameter object
InitValidate ==
    /\ env = EnvGood
    /\ registry = RegistryFull
    /\ allowance = [c \in EvmChains |-> <<0>>]
    /\ inv = [i \in {1} |-> Idle]

NextValidate == \E i \in DOMAIN inv : ValidateSwapParamsCall(i)

SpecValidate == InitValidate /\ [][NextValidate]_vars

\* the amount utilities applied to one amount, and convertAmount applied to
\* its own result
InitCodec ==
    /\ env = EnvGood
    /\ registry = RegistryFull
    /\ allowance = [c \in EvmChains |-> <<0>>]
    /\ inv = [i \in {1} |-> Idle]

NextCodec ==
    \E i \in DOMAIN inv :
        \/ ConvertAmountCall(i)
        \/ ConvertAmountBack(i)
        \/ FormatAmountPrettyCall(i)

SpecCodec == InitCodec /\ [][NextCodec]_vars

\* the configuration functions called in an environment that is complete or
\* has one variable wrong
InitConfig ==
    /\ env \in HandlerEnvs
    /\ registry = RegistryFull
    /\ allowance = [c \in EvmChains |-> <<0>>]
    /\ inv = [i \in {1} |-> Idle]

NextConfig ==
    \E i \in DOMAIN inv :
        \/ GetChainConfigCall(i)
        \/ ValidateChainConfigCall(i)

SpecConfig == InitConfig /\ [][NextConfig]_vars

\* The functions that write diagnostic lines: logConfigStatus, executeSwap
\* and estimateSwapGas, in environments that differ in one private key
InitDiagnostics ==
    /\ env \in DiagnosticEnvs
    /\ registry = RegistryFull
    /\ allowance = [c \in EvmChains |-> <<0>>]
    /\ inv = [i \in {1} |-> Idle]

NextDiagnostics ==
    \E i \in DOMAIN inv :
        \/ LogConfigStatusCall(i)
        \/ ExecuteSwapCall(i)
        \/ EstimateSwapGasCall(i)
        \/ ExecuteSwapStep(i)
        \/ EstimateSwapGasStep(i)

SpecDiagnostics == InitDiagnostics /\ [][NextDiagnostics]_vars

-----------------------------------------------------------------------------
(* Properties *)

\* the positions of the calls to fn in the call log of an invocation
CallsTo(r, fn) == {k \in 1..Len(r.calls) : r.calls[k].fn = fn}

Contains(texts, text) == \E k \in 1..Len(texts) : texts[k] = text

\* C1: every SwapResult returned by executeSwap, on any chain and for any
\* outcome of the collaborators, populates exactly one branch: success = true
\* comes with a transaction hash and no error, success = false with an error
\* and no transaction hash.
C1_MutualExclusivity ==
    \A i \in DOMAIN inv :
        (inv[i].op = "executeSwap" /\ inv[i].outcome.kind = "returned") =>
            LET res == inv[i].outcome.value
            IN  /\ res.success =>
                     /\ HasKey(res, "transactionHash")
                     /\ res.transactionHash # ""
                     /\ ~HasKey(res, "error")
                /\ ~res.success =>
                     /\ HasKey(res, "error")
                     /\ ~HasKey(res, "transactionHash")

\* a swap on scroll that went through, and so returned the success branch
C1_Witness ==
    \E i \in DOMAIN inv :
        /\ inv[i].op = "executeSwap"
        /\ inv[i].params.chainName = "scroll"
        /\ inv[i].outcome.kind = "returned"
        /\ inv[i].outcome.value.success
        /\ CallsTo(inv[i], "sendTransaction") # {}

C3_EstimateNeverThrows ==
    \A i \in DOMAIN inv :
        inv[i].op = "estimateSwapGas" => inv[i].outcome.kind # "thrown"

FallbackTupleStarknet ==
    [gasEstimate   |-> Str(<<5,0,0,0,0>>),
     gasPrice      |-> Str(<<1,0,0,0,0,0,0,0,0,0>>),
     estimatedCost |-> Str(<<5,0,0,0,0,0,0,0,0,0,0,0,0,0>>)]

FallbackTupleEvm ==
    [gasEstimate   |-> Str(<<2,0,0,0,0,0>>),
     gasPrice      |-> Str(<<2,0,0,0,0,0,0,0,0,0,0>>),
     estimatedCost |-> Str(<<4,0,0,0,0,0,0,0,0,0,0,0,0,0,0,0>>)]

\* C4: whenever a step of estimateSwapGas fails after the amount is parsed,
\* the result is the fixed tuple of the chain family: 50000 / 1000000000 /
\* 50000000000000 on starknet, 200000 / 20000000000 / 4000000000000000 on
\* base and scroll, whatever was thrown and wherever.
C4_FallbackTuple ==
    \A i \in DOMAIN inv :
        (inv[i].op = "estimateSwapGas" /\ inv[i].caught # <<>>) =>
            /\ inv[i].pc = "done"
            /\ inv[i].outcome =
                 Returned(IF inv[i].params.chainName = "starknet"
                          THEN FallbackTupleStarknet ELSE FallbackTupleEvm)

\* an estimation on starknet with a configuration without a public key
C4_Witness ==
    \E i \in DOMAIN inv :
        /\ inv[i].op = "estimateSwapGas"
        /\ inv[i].params.chainName = "starknet"
        /\ ~HasPublicKey(inv[i].cfg)
        /\ inv[i].caught # <<>>
        /\ inv[i].outcome.kind = "returned"

\* estimatedCost = gasEstimate * gasPrice, on the integers the strings denote
CostIdentity(res) ==
    JsBigInt(res.estimatedCost).mag =
        BigMul(JsBigInt(res.gasEstimate).mag, JsBigInt(res.gasPrice).mag)

\* C5 as stated: every GasEstimate returned by estimateSwapGas, from a live
\* estimation on any chain or from the fallback, has
\* estimatedCost = gasEstimate * gasPrice.
C5_CostIdentityEverywhere ==
    \A i \in DOMAIN inv :
        (inv[i].op = "estimateSwapGas" /\ inv[i].outcome.kind = "returned") =>
            CostIdentity(inv[i].outcome.value)

\* C5 amended: the identity holds for the live estimations on base and scroll
\* and for the fallback tuples of both chain families.
C5_CostIdentityEvmAndFallback ==
    \A i \in DOMAIN inv :
        (/\ inv[i].op = "estimateSwapGas"
         /\ inv[i].outcome.kind = "returned"
         /\ (inv[i].params.chainName \in EvmChains \/ inv[i].caught # <<>>)) =>
            CostIdentity(inv[i].outcome.value)

\* a live estimation on base: gas estimated, gas price read, nothing thrown
C5_Witness ==
    \E i \in DOMAIN inv :
        /\ inv[i].op = "estimateSwapGas"
        /\ inv[i].params.chainName = "base"
        /\ inv[i].caught = <<>>
        /\ inv[i].outcome.kind = "returned"
        /\ CallsTo(inv[i], "getGasPrice") # {}
        /\ inv[i].outcome.value.estimatedCost # inv[i].outcome.value.gasEstimate

\* C6: on base and scroll an approval transaction is submitted exactly when
\* the input token is not the zero-address sentinel and the allowance read for
\* (owner, router) is strictly below the swap amount. With the sentinel no
\* allowance is read and nothing is approved; an allowance that covers the
\* amount means no approval; an approval approves exactly the swap amount to
\* the router, and there is at most one.
C6_ApprovalIffShortAllowance ==
    \A i \in DOMAIN inv :
        (inv[i].op = "executeSwap" /\ inv[i].params.chainName \in EvmChains) =>
            LET r         == inv[i]
                approvals == CallsTo(r, "writeContract")
                reads     == CallsTo(r, "readContract")
            IN  /\ r.params.tokenInAddress = NATIVE_SENTINEL =>
                     reads = {} /\ approvals = {}
                /\ Cardinality(approvals) <= 1
                /\ \A k \in approvals :
                     /\ r.calls[k].functionName = "approve"
                     /\ r.calls[k].address = r.params.tokenInAddress
                     /\ r.calls[k].args =
                          <<RouterAddressIn(registry, r.params.chainName),
                            toBigInt(r.params.amount).value>>
                /\ \A k \in reads :
                     r.calls[k].args =
                          <<privateKeyToAccount(r.cfg.privateKey).address,
                            RouterAddressIn(registry, r.params.chainName)>>
                /\ r.pc \notin {"idle", "evm_readAllowance", "evm_approve"} =>
                     (approvals # {} <=>
                        /\ r.params.tokenInAddress # NATIVE_SENTINEL
                        /\ r.allowanceRead # <<>>
                        /\ ~BigGe(r.allowanceRead, r.amountBI))

\* a swap of a token whose allowance was short: approved, then swapped
C6_Witness ==
    \E i \in DOMAIN inv :
        /\ inv[i].op = "executeSwap"
        /\ inv[i].params.chainName \in EvmChains
        /\ inv[i].allowanceRead = <<5>>
        /\ inv[i].amountBI = <<7>>
        /\ CallsTo(inv[i], "writeContract") # {}
        /\ inv[i].outcome.kind = "returned"
        /\ inv[i].outcome.value.success

ApprovalSteps == {"evm_readAllowance", "evm_approve", "evm_waitApprove"}

\* C7: when the allowance read, the approval submission or the approval's
\* confirmation wait fails, the swap is aborted: no route request, no gas
\* price read, no swap transaction, and the result is success = false with
\* the message of the approval error.
C7_ApprovalFailureAborts ==
    \A i \in DOMAIN inv :
        (inv[i].op = "executeSwap" /\ inv[i].failedAt \in ApprovalSteps) =>
            /\ inv[i].pc = "done"
            /\ CallsTo(inv[i], "buildRouteAndCalldata") = {}
            /\ CallsTo(inv[i], "getGasPrice") = {}
            /\ CallsTo(inv[i], "sendTransaction") = {}
            /\ inv[i].caught # <<>>
            /\ inv[i].outcome =
                 Returned([success |-> FALSE,
                           error |-> IF inv[i].caught[1].isError
                                     THEN inv[i].caught[1].message
                                     ELSE "EVM swap failed"])

\* the approval submission was rejected
C7_Witness ==
    \E i \in DOMAIN inv :
        /\ inv[i].op = "executeSwap"
        /\ inv[i].failedAt = "evm_approve"
        /\ inv[i].caught = <<Error("Approval rejected")>>
        /\ inv[i].outcome.kind = "returned"
        /\ inv[i].outcome.value.error = "Approval rejected"

\* what C8 promises of a swap on starknet without a public key
MissingPublicKeyResult(r) ==
    /\ r.pc = "done"
    /\ r.outcome = Returned([success |-> FALSE,
                             error |-> "Starknet public key is required"])
    /\ r.calls = <<>>

\* C8 as stated: executeSwap on starknet with a configuration without a
\* public key, with or without receiverAddress, returns success = false with
\* the error "Starknet public key is required" and calls neither the route
\* client nor the approve builder nor the RPC.
C8_MissingPublicKey ==
    \A i \in DOMAIN inv :
        (/\ inv[i].op = "executeSwap"
         /\ inv[i].pc # "idle"
         /\ inv[i].params.chainName = "starknet"
         /\ ~HasPublicKey(inv[i].cfg)) =>
            MissingPublicKeyResult(inv[i])

\* C8 amended: the same, for an amount that toBigInt accepts.
C8_MissingPublicKeyParsedAmount ==
    \A i \in DOMAIN inv :
        (/\ inv[i].op = "executeSwap"
         /\ inv[i].pc # "idle"
         /\ inv[i].params.chainName = "starknet"
         /\ ~HasPublicKey(inv[i].cfg)
         /\ toBigInt(inv[i].params.amount).ok) =>
            MissingPublicKeyResult(inv[i])

\* no public key, but a receiver address, so the wallet address is not needed
C8_Witness ==
    \E i \in DOMAIN inv :
        /\ inv[i].op = "executeSwap"
        /\ inv[i].params.chainName = "starknet"
        /\ ~HasPublicKey(inv[i].cfg)
        /\ HasKey(inv[i].params, "receiverAddress")
        /\ inv[i].amountBI = <<7>>
        /\ inv[i].pc = "done"

\* the handler rejected the call before executeSwap and before any I/O
RejectedBeforeIO(r) ==
    /\ r.pc = "done"
    /\ HasKey(r.response, "isError") /\ r.response.isError
    /\ ~Contains(r.entered, "executeSwap")
    /\ r.calls = <<>>
    /\ r.outcome.kind = "pending"

\* C9: in the execute-swap handler validation precedes network I/O: whenever
\* validateSwapParams reports an error for the call's parameters (equal token
\* addresses, for one) the handler returns an error response, executeSwap is
\* not entered and neither the route client nor the RPC is called.
C9_ValidationBeforeIO ==
    \A i \in DOMAIN inv :
        (inv[i].op = "executeSwapHandler" /\ inv[i].pc # "idle") =>
            LET r == inv[i]
                swapParams == IF HasKey(r.params, "slippage") THEN r.params
                              ELSE With(r.params, "slippage", DEFAULTS_SLIPPAGE)
            IN  /\ ~validateSwapParams(swapParams).isValid => RejectedBeforeIO(r)
                /\ r.params.tokenInAddress = r.params.tokenOutAddress =>
                     /\ RejectedBeforeIO(r)
                     /\ Contains(r.entered, "validateSwapParams") =>
                          /\ Contains(validateSwapParams(swapParams).errors,
                                "Token in and token out addresses must be different")
                          /\ r.response.errorMessage =
                               "Invalid swap parameters: "
                                 \o Join(validateSwapParams(swapParams).errors, ", ")

\* equal token addresses on a configured chain: rejected by validateSwapParams
C9_Witness ==
    \E i \in DOMAIN inv :
        /\ inv[i].op = "executeSwapHandler"
        /\ inv[i].params.tokenInAddress = inv[i].params.tokenOutAddress
        /\ Contains(inv[i].entered, "validateSwapParams")
        /\ inv[i].pc = "done"
        /\ inv[i].response.isError

\* the amount is the empty string or a string that toBigInt turns into 0n
DenotesZero(amount) ==
    \/ amount = <<>>
    \/ toBigInt(amount).ok /\ toBigInt(amount).value = <<0>>

\* C10: validateSwapParams rejects every zero amount: for an amount that is
\* empty or denotes the integer zero the result has isValid = false and lists
\* "Amount must be greater than 0"; and isValid is true exactly when the list
\* of errors is empty.
C10_ZeroAmountRejected ==
    \A i \in DOMAIN inv :
        (inv[i].op = "validateSwapParams" /\ inv[i].outcome.kind = "returned") =>
            LET res == inv[i].outcome.value
            IN  /\ DenotesZero(inv[i].params.amount) =>
                     /\ ~res.isValid
                     /\ Contains(res.errors, "Amount must be greater than 0")
                /\ res.isValid <=> (res.errors = <<>>)

\* a string of decimal digits, and one without superfluous leading zeros
IsDigitString(x) == x # <<>> /\ AllDigits(x)

IsCanonical(x) == IsDigitString(x) /\ x = BigToString(BigOfDigits(x))

\* convertAmount(x, d, "format") returned, and its result was handed to
\* convertAmount(., d, "parse")
IsRoundTrip(r) ==
    /\ r.op = "convertAmount"
    /\ r.previous # <<>>
    /\ r.previous[1].params.operation = "format"
    /\ r.params.operation = "parse"

\* C11 as stated: for every string x of digits and every number of decimals,
\* convertAmount(convertAmount(x, decimals, "format"), decimals, "parse")
\* equals x.
C11_RoundTripAnyDigits ==
    \A i \in DOMAIN inv :
        (IsRoundTrip(inv[i]) /\ IsDigitString(inv[i].previous[1].params.amount)) =>
            inv[i].outcome = Returned(inv[i].previous[1].params.amount)

\* C11 amended: the round trip returns x when x is written without
\* superfluous leading zeros, and for every string of digits it returns the
\* decimal numeral of the integer that x denotes.
C11_RoundTripCanonical ==
    \A i \in DOMAIN inv :
        (IsRoundTrip(inv[i]) /\ IsDigitString(inv[i].previous[1].params.amount)) =>
            LET x == inv[i].previous[1].params.amount
            IN  /\ inv[i].outcome = Returned(BigToString(BigOfDigits(x)))
                /\ IsCanonical(x) => inv[i].outcome = Returned(x)

\* "150" with 2 decimals: formatted as "1.5", parsed back to "150"
C11_Witness ==
    \E i \in DOMAIN inv :
        /\ IsRoundTrip(inv[i])
        /\ inv[i].previous[1].params.amount = <<"1", "5", "0">>
        /\ inv[i].params.decimals = 2
        /\ inv[i].params.amount = <<"1", ".", "5">>
        /\ inv[i].outcome = Returned(<<"1", "5", "0">>)

\* digits "." digits, with more digits after the point than decimals
HasExcessFraction(amount, decimals) ==
    /\ Dots(amount) = 1
    /\ AllDigits(BeforeDot(amount))
    /\ AllDigits(AfterDot(amount))
    /\ Len(AfterDot(amount)) > decimals

\* the largest integer not above amount * 10^decimals, as a string
Floor(amount, decimals) ==
    LET digits == BeforeDot(amount) \o SubSeq(AfterDot(amount), 1, decimals)
    IN  IF digits = <<>> THEN <<"0">> ELSE BigToString(BigOfDigits(digits))

\* C12: parsing a human amount truncates and never rounds: when the
\* fractional part has more digits than decimals, convertAmount(amount,
\* decimals, "parse") is the largest integer not above amount * 10^decimals.
C12_ParseTruncates ==
    \A i \in DOMAIN inv :
        (/\ inv[i].op = "convertAmount"
         /\ inv[i].params.operation = "parse"
         /\ inv[i].pc = "done"
         /\ HasExcessFraction(inv[i].params.amount, inv[i].params.decimals)) =>
            inv[i].outcome =
                Returned(Floor(inv[i].params.amount, inv[i].params.decimals))

\* x / 10^decimals with the fraction cut to maxDecimals digits, then without
\* its trailing zeros
Truncated(x, decimals, maxDecimals) ==
    LET formatted == formatUnits(FALSE, BigOfDigits(x), decimals)
        fraction  == AfterDot(formatted)
        cut       == StripTrailingZeros(
                         IF Len(fraction) > maxDecimals
                         THEN SubSeq(fraction, 1, maxDecimals) ELSE fraction)
    IN  IF cut = <<>> THEN BeforeDot(formatted)
        ELSE BeforeDot(formatted) \o <<".">> \o cut

\* C13: formatAmountPretty(x, decimals, maxDecimals) is the exact decimal
\* expansion of x / 10^decimals with the fraction cut to at most maxDecimals
\* digits and the trailing zeros stripped; it is never rounded up.
C13_PrettyTruncates ==
    \A i \in DOMAIN inv :
        (/\ inv[i].op = "formatAmountPretty"
         /\ inv[i].pc = "done"
         /\ IsDigitString(inv[i].params.amount)) =>
            inv[i].outcome =
                Returned(Truncated(inv[i].params.amount, inv[i].params.decimals,
                                   inv[i].params.maxDecimals))

\* the environment variables of one chain
OwnVars(chainName) ==
    { ToUpperCase(chainName) \o "_RPC_URL", ToUpperCase(chainName) \o "_PRIVATE_KEY" }
        \cup (IF chainName = "starknet" THEN {"STARKNET_PUBLIC_KEY"} ELSE {})

OwnValuesPresent(e, chainName) == \A v \in OwnVars(chainName) : e[v] # ""

OwnValuesWellFormed(e, chainName) ==
    /\ validateRpcUrl(e[ToUpperCase(chainName) \o "_RPC_URL"], chainName) = <<>>
    /\ validatePrivateKey(e[ToUpperCase(chainName) \o "_PRIVATE_KEY"], chainName) = <<>>
    /\ chainName = "starknet" => e["STARKNET_PUBLIC_KEY"] \notin PLACEHOLDER_VALUES

\* C14: resolving or validating the configuration of one chain depends only
\* on that chain's own values: getChainConfig fails exactly when one of them
\* is absent, validateChainConfig exactly when one is absent or malformed, and
\* a value missing for another chain makes neither fail.
C14_OwnValuesOnly ==
    \A i \in DOMAIN inv :
        /\ (inv[i].op = "getChainConfig" /\ inv[i].pc = "done") =>
             (inv[i].outcome.kind = "thrown"
                <=> ~OwnValuesPresent(env, inv[i].params.chainName))
        /\ (inv[i].op = "validateChainConfig" /\ inv[i].pc = "done") =>
             (~inv[i].outcome.value.isValid
                <=> ~OwnValuesWellFormed(env, inv[i].params.chainName))

\* C15: when SwapParams.slippage is omitted, the route request made by
\* executeSwap carries the default slippage of the server configuration
\* (1 when DEFAULT_SLIPPAGE is not set).
C15_ServerDefaultSlippage ==
    \A i \in DOMAIN inv :
        (/\ inv[i].op = "executeSwap"
         /\ ~HasKey(inv[i].params, "slippage")
         /\ getServerConfig(env).ok) =>
            \A k \in CallsTo(inv[i], "buildRouteAndCalldata") :
                inv[i].calls[k].request.slippage = getServerConfig(env).defaultSlippage

PrivateKeyVars == {"BASE_PRIVATE_KEY", "SCROLL_PRIVATE_KEY", "STARKNET_PRIVATE_KEY"}

\* the private keys an invocation can read: those of the environment and the
\* one of the chain configuration it was handed
PrivateKeysOf(r) ==
    ({ env[v] : v \in PrivateKeyVars }
        \cup (IF HasKey(r.cfg, "privateKey") THEN {r.cfg.privateKey} ELSE {})) \ {""}

\* no part of a line written by r is a private key
NoLineHoldsKey(r) ==
    \A k \in 1..Len(r.log) : \A p \in 1..Len(r.log[k]) : r.log[k][p] \notin PrivateKeysOf(r)

\* e1 and e2 differ in private keys at most
SameButKeys(e1, e2) == \A v \in EnvVars \ PrivateKeyVars : e1[v] = e2[v]

SameMasks(e1, e2) == \A v \in PrivateKeyVars : maskPrivateKey(e1[v]) = maskPrivateKey(e2[v])

SameVerdicts(e1, e2) ==
    \A chain \in Chains :
        validatePrivateKey(e1[ToUpperCase(chain) \o "_PRIVATE_KEY"], chain)
            = validatePrivateKey(e2[ToUpperCase(chain) \o "_PRIVATE_KEY"], chain)

\* C16 as stated: no line written by logConfigStatus, validateChainConfig,
\* executeSwap or estimateSwapGas holds a private key, and the lines are the
\* same for any two keys with the same masked form (first 4 characters,
\* "****", last 4 characters)
C16_LinesDependOnMaskOnly ==
    \A i \in DOMAIN inv :
        /\ NoLineHoldsKey(inv[i])
        /\ (inv[i].op = "logConfigStatus" /\ inv[i].outcome.kind = "returned") =>
               \A e2 \in DiagnosticEnvs :
                   (SameButKeys(env, e2) /\ SameMasks(env, e2)) =>
                       logConfigStatus(e2).lines = inv[i].log

\* C16, amended: no line written by logConfigStatus (with the messages of
\* validateChainConfig), executeSwap or estimateSwapGas holds a private key,
\* and the lines of logConfigStatus are the same for any two keys that
\* validatePrivateKey judges alike
C16_LinesDependOnVerdictOnly ==
    \A i \in DOMAIN inv :
        /\ NoLineHoldsKey(inv[i])
        /\ (inv[i].op = "logConfigStatus" /\ inv[i].outcome.kind = "returned") =>
               \A e2 \in DiagnosticEnvs :
                   (SameButKeys(env, e2) /\ SameVerdicts(env, e2)) =>
                       logConfigStatus(e2).lines = inv[i].log

\* logConfigStatus has reported a key with characters that are not
\* hexadecimal, and another environment holds a different key judged alike
C16_Witness ==
    \E i \in DOMAIN inv :
        /\ inv[i].op = "logConfigStatus"
        /\ inv[i].outcome.kind = "returned"
        /\ env["BASE_PRIVATE_KEY"] = KeyNotHex
        /\ \E k \in 1..Len(inv[i].log) :
               inv[i].log[k] = <<"      - ", "Private key for base contains invalid hex characters">>
        /\ \E e2 \in DiagnosticEnvs : e2 # env /\ SameButKeys(env, e2) /\ SameVerdicts(env, e2)

\* the stage of a call of executeSwap on an account-based chain, the stages
\* numbered as the specification lists them: route fetch, allowance read,
\* approval and its confirmation, gas price read, swap and its confirmation
StageAsListed(call) ==
    CASE call.fn = "buildRouteAndCalldata" -> 1
      [] call.fn = "readContract" -> 2
      [] call.fn = "writeContract" -> 3
      [] call.fn = "waitForTransactionReceipt" /\ call.hash = ApprovalTxHash -> 3
      [] call.fn = "getGasPrice" -> 4
      [] call.fn = "sendTransaction" -> 5
      [] call.fn = "waitForTransactionReceipt" /\ call.hash = SwapTxHash -> 5

\* the stages numbered with the route fetch after the approval
StageApprovalFirst(call) ==
    CASE call.fn = "readContract" -> 1
      [] call.fn = "writeContract" -> 2
      [] call.fn = "waitForTransactionReceipt" /\ call.hash = ApprovalTxHash -> 2
      [] call.fn = "buildRouteAndCalldata" -> 3
      [] call.fn = "getGasPrice" -> 4
      [] call.fn = "sendTransaction" -> 5
      [] call.fn = "waitForTransactionReceipt" /\ call.hash = SwapTxHash -> 5

\* the calls of r never go back to an earlier stage
InStageOrder(r, Stage(_)) ==
    \A j, k \in 1..Len(r.calls) : j < k => Stage(r.calls[j]) <= Stage(r.calls[k])

\* a submitted approval is followed by the wait for its confirmation before
\* anything else is called
ApprovalAwaited(r) ==
    \A j \in CallsTo(r, "writeContract") :
        j < Len(r.calls) =>
            /\ r.calls[j + 1].fn = "waitForTransactionReceipt"
            /\ r.calls[j + 1].hash = ApprovalTxHash

\* C17 as stated: on an account-based chain the calls of executeSwap come in
\* the order route fetch, allowance read, approval and wait, gas price read,
\* swap submission and wait
C17_RouteFetchFirst ==
    \A i \in DOMAIN inv :
        (inv[i].op = "executeSwap" /\ inv[i].params.chainName \in EvmChains) =>
            InStageOrder(inv[i], StageAsListed) /\ ApprovalAwaited(inv[i])

\* C17, amended: on an account-based chain the calls of executeSwap come in
\* the order allowance read, approval and wait for its confirmation, route
\* fetch, gas price read, swap submission and wait
C17_ApprovalBeforeRouteFetch ==
    \A i \in DOMAIN inv :
        (inv[i].op = "executeSwap" /\ inv[i].params.chainName \in EvmChains) =>
            InStageOrder(inv[i], StageApprovalFirst) /\ ApprovalAwaited(inv[i])

\* a swap that went through all five stages
C17_Witness ==
    \E i \in DOMAIN inv :
        /\ inv[i].op = "executeSwap"
        /\ inv[i].params.chainName \in EvmChains
        /\ inv[i].outcome.kind = "returned"
        /\ inv[i].outcome.value.success
        /\ [k \in 1..Len(inv[i].calls) |-> inv[i].calls[k].fn]
               = <<"readContract", "writeContract", "waitForTransactionReceipt",
                   "buildRouteAndCalldata", "getGasPrice", "sendTransaction",
                   "waitForTransactionReceipt">>

\* what tells two calls of one invocation apart: the function, and the
\* transaction waited for
CallKey(call) == <<call.fn, IF HasKey(call, "hash") THEN call.hash ELSE "">>

\* C18: one executeSwap invocation is one attempt: at most one approval
\* transaction, at most one swap transaction, on starknet at most one
\* multi-call execution; no call is made twice, and the step that failed is
\* the last one made
C18_OneAttempt ==
    \A i \in DOMAIN inv :
        inv[i].op = "executeSwap" =>
            /\ Cardinality(CallsTo(inv[i], "writeContract")) <= 1
            /\ Cardinality(CallsTo(inv[i], "sendTransaction")) <= 1
            /\ Cardinality(CallsTo(inv[i], "execute")) <= 1
            /\ \A j, k \in 1..Len(inv[i].calls) :
                   j < k => CallKey(inv[i].calls[j]) # CallKey(inv[i].calls[k])
            /\ inv[i].failedAt # "" =>
                   /\ inv[i].pc = "done"
                   /\ inv[i].outcome.kind = "returned"
                   /\ ~inv[i].outcome.value.success

\* the swap transaction was rejected after an approval went through
C18_Witness ==
    \E i \in DOMAIN inv :
        /\ inv[i].op = "executeSwap"
        /\ inv[i].failedAt = "evm_send"
        /\ Cardinality(CallsTo(inv[i], "writeContract")) = 1
        /\ Cardinality(CallsTo(inv[i], "sendTransaction")) = 1

\* the calls that submit a transaction
SubmittingCalls == {"writeContract", "sendTransaction", "execute"}

\* the calls estimateSwapGas makes: the two builders of the route client and
\* the reads of the RPC endpoint
EstimateReads ==
    {"buildApproveStarknet", "buildRouteAndCalldata", "estimateFee", "estimateGas",
     "getGasPrice"}

\* C19: estimateSwapGas never submits a transaction: on every chain and on
\* the fallback path it makes no approval write, no transaction send and no
\* multi-call execute, only the builder calls and the reads
C19_EstimateSubmitsNothing ==
    \A i \in DOMAIN inv :
        inv[i].op = "estimateSwapGas" =>
            \A k \in 1..Len(inv[i].calls) :
                /\ inv[i].calls[k].fn \notin SubmittingCalls
                /\ inv[i].calls[k].fn \in EstimateReads

\* an estimation on starknet that went as far as the fee estimate of the two
\* calls
C19_Witness ==
    \E i \in DOMAIN inv :
        /\ inv[i].op = "estimateSwapGas"
        /\ inv[i].pc = "done"
        /\ CallsTo(inv[i], "estimateFee") # {}
        /\ inv[i].outcome.kind = "returned"

\* C20: on starknet executeSwap submits the approval and the swap in one
\* multi-call execution: every execution has the call list [approve call,
\* swap call] in that order, the approve call being the one the route client
\* built and the swap call targeting the registry's router address with entry
\* point "swap" and the route client's calldata; there is at most one
\* execution, exactly one behind a success, and nothing is submitted otherwise
C20_OneMultiCall ==
    \A i \in DOMAIN inv :
        (inv[i].op = "executeSwap" /\ inv[i].params.chainName = "starknet") =>
            LET r == inv[i]
                executions == CallsTo(r, "execute")
            IN  /\ Cardinality(executions) <= 1
                /\ CallsTo(r, "writeContract") = {}
                /\ CallsTo(r, "sendTransaction") = {}
                /\ (r.outcome.kind = "returned" /\ r.outcome.value.success) =>
                       Cardinality(executions) = 1
                /\ \A k \in executions :
                       LET list == r.calls[k].calls
                       IN  /\ Len(list) = 2
                           /\ list[1].entrypoint = "approve"
                           /\ list[1].contractAddress = r.params.tokenInAddress
                           /\ list[1] = r.approveCall
                           /\ CallsTo(r, "buildApproveStarknet") # {}
                           /\ list[2].entrypoint = "swap"
                           /\ list[2].contractAddress = RouterAddressIn(registry, "starknet")
                           /\ list[2].contractAddress # ""
                           /\ list[2].calldata = r.calldata
                           /\ \E j \in CallsTo(r, "buildRouteAndCalldata") : j < k

\* a swap on starknet that was executed
C20_Witness ==
    \E i \in DOMAIN inv :
        /\ inv[i].op = "executeSwap"
        /\ inv[i].params.chainName = "starknet"
        /\ inv[i].outcome.kind = "returned"
        /\ inv[i].outcome.value.success
        /\ Cardinality(CallsTo(inv[i], "execute")) = 1

\* C21: when the registry holds no router address for the requested chain,
\* executeSwap submits nothing and any result it returns has success false; on
\* an account-based chain it is finished at once, without an allowance read
\* and without a call to the route client
C21_NoRouterNoTransaction ==
    \A i \in DOMAIN inv :
        (inv[i].op = "executeSwap"
            /\ RouterAddressIn(registry, inv[i].params.chainName) = "") =>
            /\ \A k \in 1..Len(inv[i].calls) : inv[i].calls[k].fn \notin SubmittingCalls
            /\ inv[i].outcome.kind # "thrown"
            /\ inv[i].outcome.kind = "returned" => ~inv[i].outcome.value.success
            /\ inv[i].params.chainName = "starknet" \/ inv[i].pc = "done"
            /\ inv[i].params.chainName \in EvmChains =>
                   /\ inv[i].calls = <<>>
                   /\ inv[i].outcome.kind = "returned"

\* a swap on an account-based chain refused for the missing router address
C21_Witness ==
    \E i \in DOMAIN inv :
        /\ inv[i].op = "executeSwap"
        /\ inv[i].params.chainName \in EvmChains
        /\ RouterAddressIn(registry, inv[i].params.chainName) = ""
        /\ inv[i].outcome.kind = "returned"
        /\ inv[i].outcome.value.error = "Router address not found"

\* C22: when the registry holds no router address (or no entry) for the
\* requested chain, every result of estimateSwapGas is the fallback tuple of
\* the chain family, whatever the RPC endpoint answers
C22_NoRouterFallback ==
    \A i \in DOMAIN inv :
        (inv[i].op = "estimateSwapGas"
            /\ RouterAddressIn(registry, inv[i].params.chainName) = ""
            /\ inv[i].outcome.kind = "returned") =>
            inv[i].outcome.value = IF inv[i].params.chainName = "starknet"
                                   THEN FallbackTupleStarknet ELSE FallbackTupleEvm

\* floor(networkGasPrice * round(multiplier * 100) / 100), the multiplier in
\* thousandths
MultipliedPrice(networkGasPrice, multiplier) ==
    BigDiv100(BigMul(networkGasPrice, NatToBig((multiplier + 5) \div 10)))

\* an estimation on an account-based chain that returned what it measured
LiveEvmEstimate(r) ==
    /\ r.op = "estimateSwapGas"
    /\ r.params.chainName \in EvmChains
    /\ r.outcome.kind = "returned"
    /\ r.caught = <<>>

\* C23: on the account-based chains the price of the submitted swap and the
\* reported gasPrice are both floor(networkGasPrice * round(multiplier * 100)
\* / 100), the reported cost is the gas estimate times that price, and with
\* the default multiplier a network price of 20000000000 gives 24000000000
\* and, with 200000 gas, the cost 4800000000000000
C23_MultipliedGasPrice ==
    \A i \in DOMAIN inv :
        LET r == inv[i]
            price == MultipliedPrice(r.networkGasPrice,
                                     getServerConfig(env).gasPriceMultiplier)
        IN  /\ r.op = "executeSwap" =>
                   \A k \in CallsTo(r, "sendTransaction") : r.calls[k].gasPrice = price
            /\ LiveEvmEstimate(r) =>
                   /\ r.outcome.value.gasPrice = BigToString(price)
                   /\ r.outcome.value.estimatedCost
                          = BigToString(BigMul(r.gasEstimate, price))
                   /\ (env["GAS_PRICE_MULTIPLIER"] = ""
                          /\ r.networkGasPrice = <<2,0,0,0,0,0,0,0,0,0,0>>) =>
                          /\ r.outcome.value.gasPrice = Str(<<2,4,0,0,0,0,0,0,0,0,0>>)
                          /\ r.gasEstimate = <<2,0,0,0,0,0>> =>
                                 r.outcome.value.estimatedCost
                                     = Str(<<4,8,0,0,0,0,0,0,0,0,0,0,0,0,0,0>>)

\* the estimation of the example: 200000 gas at 20000000000 with the default
\* multiplier
C23_Witness ==
    \E i \in DOMAIN inv :
        /\ LiveEvmEstimate(inv[i])
        /\ env["GAS_PRICE_MULTIPLIER"] = ""
        /\ inv[i].networkGasPrice = <<2,0,0,0,0,0,0,0,0,0,0>>
        /\ inv[i].gasEstimate = <<2,0,0,0,0,0>>

\* C24: when a step of executeSwap fails with a throwable that is not an
\* Error, the result is success false with the generic message of the chain
\* family: "Starknet swap failed" on starknet, "EVM swap failed" on base and
\* scroll, whichever step threw
C24_GenericMessagePerFamily ==
    \A i \in DOMAIN inv :
        (inv[i].op = "executeSwap" /\ inv[i].caught = <<NonError>>) =>
            /\ inv[i].pc = "done"
            /\ inv[i].outcome =
                 Returned([success |-> FALSE,
                           error |-> IF inv[i].params.chainName = "starknet"
                                     THEN "Starknet swap failed" ELSE "EVM swap failed"])

\* the submission of the swap was rejected with a value that is not an Error
C24_Witness ==
    \E i \in DOMAIN inv :
        /\ inv[i].op = "executeSwap"
        /\ inv[i].caught = <<NonError>>
        /\ inv[i].failedAt = "evm_send"

\* the calls of r that submit a transaction
Submissions(r) == {k \in 1..Len(r.calls) : r.calls[k].fn \in SubmittingCalls}

\* C25: a successful swap on an account-based chain reports the hash of the
\* one swap transaction it submitted, the explorer URL of the chain
\* (basescan.org for base, scrollscan.com for scroll) followed by "/" and
\* that hash, and the gasUsed of the receipt of that transaction; when the
\* allowance covered the amount, or the token is the native sentinel, that
\* transaction is the only one submitted
C25_SuccessReport ==
    \A i \in DOMAIN inv :
        LET r == inv[i]
        IN  (/\ r.op = "executeSwap"
             /\ r.params.chainName \in EvmChains
             /\ r.outcome.kind = "returned"
             /\ r.outcome.value.success) =>
                /\ Cardinality(CallsTo(r, "sendTransaction")) = 1
                /\ r.outcome.value.transactionHash = SwapTxHash
                /\ r.calls[Len(r.calls)] =
                       [fn |-> "waitForTransactionReceipt", hash |-> SwapTxHash]
                /\ r.calls[Len(r.calls) - 1].fn = "sendTransaction"
                /\ r.outcome.value.explorerUrl =
                       (IF r.params.chainName = "base" THEN "https://basescan.org/tx"
                        ELSE "https://scrollscan.com/tx") \o "/" \o SwapTxHash
                /\ r.outcome.value.gasUsed = BigToString(r.receiptGasUsed)
                /\ (r.params.tokenInAddress = NATIVE_SENTINEL
                       \/ BigGe(r.allowanceRead, r.amountBI)) =>
                       Cardinality(Submissions(r)) = 1

\* a successful swap on scroll whose allowance covered the amount
C25_Witness ==
    \E i \in DOMAIN inv :
        /\ inv[i].op = "executeSwap"
        /\ inv[i].params.chainName = "scroll"
        /\ inv[i].outcome.kind = "returned"
        /\ inv[i].outcome.value.success
        /\ inv[i].params.tokenInAddress # NATIVE_SENTINEL
        /\ inv[i].allowanceRead # <<>>
        /\ BigGe(inv[i].allowanceRead, inv[i].amountBI)
        /\ Cardinality(Submissions(inv[i])) = 1

\* the request executeSwap builds for the same parameters, configuration and
\* registry: amount, slippage and receiver as executeSwap resolves them, the
\* chain id as executeStarknetSwap and executeEvmSwap look it up
ExecuteSwapRequest(params, cfg, reg) ==
    LET r == Merge(Idle, [op |-> "executeSwap", params |-> params, cfg |-> cfg])
        e == Merge(r, executeSwapEntry(r, reg))
    IN  RouteRequest(Merge(e, [chainId |-> ChainIdIn(reg, params.chainName)]))

\* C26: for the same SwapParams, ChainConfig and registry, the request
\* estimateSwapGas sends to the route client is the request executeSwap sends
\* (input amount, token addresses, slippage, destination = the resolved
\* receiver, chain id)
C26_SameRouteRequest ==
    \A i \in DOMAIN inv :
        inv[i].op = "estimateSwapGas" =>
            \A k \in CallsTo(inv[i], "buildRouteAndCalldata") :
                inv[i].calls[k].request =
                    ExecuteSwapRequest(inv[i].params, inv[i].cfg, registry)

\* r is an ended executeSwap whose approval was submitted and whose wait for
\* the approval receipt resolved, and which failed at a later step
ApprovedThenFailed(r) ==
    /\ r.op = "executeSwap"
    /\ r.pc = "done"
    /\ CallsTo(r, "writeContract") # {}
    /\ r.approvalStatus # ""
    /\ r.failedAt \in {"evm_buildRoute", "evm_getGasPrice", "evm_send"}

\* j was invoked with the parameters of i after i had ended
Resubmitted(i, j) ==
    /\ i # j
    /\ i \in inv[j].after
    /\ inv[j].op = "executeSwap"
    /\ inv[j].params = inv[i].params
    /\ inv[j].cfg = inv[i].cfg

OwnAllowanceSecured(r) ==
    \/ (r.allowanceRead # <<>> /\ AllowanceCovers(r.allowanceRead, r.amountBI))
    \/ r.approvalStatus = "success"

\* C28: an invocation that secured the allowance for its own amount submits
\* its swap in a state where the allowance is at least that amount, whatever
\* another invocation with the same wallet, router and token does meanwhile
C28_SwapSeesOwnAllowance ==
    \A i \in DOMAIN inv :
        (/\ inv[i].op = "executeSwap"
         /\ inv[i].params.chainName \in EvmChains
         /\ inv[i].allowanceAtSend # <<>>
         /\ OwnAllowanceSecured(inv[i])) =>
            BigGe(inv[i].allowanceAtSend, inv[i].amountBI)

\* the tool requests that were dispatched to their handler
Served == {k \in DOMAIN inv : inv[k].op = "executeSwapHandler"}

\* C29: a tool request is dispatched only after refreshSupportedChains has
\* resolved, so the handler is given the populated registry; when the fetch
\* fails the process exits and no request was dispatched
C29_RegistryReadyBeforeRequests ==
    /\ \A k \in Served :
          /\ InitializationId \in inv[k].after
          /\ inv[InitializationId].outcome.kind = "returned"
    /\ inv[InitializationId].failedAt = "refreshSupportedChains" => Served = {}

\* C30: executeSwap on an account-based chain returns success = true only
\* when the receipt of the swap transaction reports a successful execution
C30_SuccessOnlyIfExecuted ==
    \A i \in DOMAIN inv :
        (/\ inv[i].op = "executeSwap"
         /\ inv[i].params.chainName \in EvmChains
         /\ inv[i].outcome.kind = "returned"
         /\ inv[i].outcome.value.success) =>
            inv[i].receiptStatus = "success"

====
